---- MODULE Spec2Model ----
(***************************************************************************)
(* Better Run (VS Code extension): the categorizer, the source loader and  *)
(* the tree provider (aggregation, filter queries).                        *)
(*                                                                         *)
(* Strings are sequences of one-character strings, so that trim(),         *)
(* toLowerCase(), includes(), RegExp.test() and String.match() are         *)
(* computed character by character as the JavaScript built-ins do.         *)
(* An optional string (string | undefined) is a record                     *)
(* [raised, defined, val]; raised marks an exception leaving the function. *)
(***************************************************************************)
EXTENDS Integers, Sequences, FiniteSets, TLC

\* ------------------------------------------------------------------------
\* Bounds of the categorizer harness
\* ------------------------------------------------------------------------
MaxLabelLen == 3
MaxRules == 2

\* ------------------------------------------------------------------------
\* JavaScript string built-ins
\* ------------------------------------------------------------------------
Whitespace == {" "}

toLowerCaseChar(c) ==
  CASE c = "A" -> "a" [] c = "B" -> "b" [] c = "C" -> "c" [] c = "D" -> "d"
    [] c = "E" -> "e" [] c = "L" -> "l" [] c = "T" -> "t" [] c = "U" -> "u"
    [] c = "X" -> "x" [] c = "Y" -> "y" [] c = "Z" -> "z"
    [] OTHER -> c

toLowerCase(s) == [i \in 1..Len(s) |-> toLowerCaseChar(s[i])]

RECURSIVE trimStart(_)
trimStart(s) ==
  IF s = <<>> THEN s
  ELSE IF Head(s) \in Whitespace THEN trimStart(Tail(s)) ELSE s

RECURSIVE trimEnd(_)
trimEnd(s) ==
  IF s = <<>> THEN s
  ELSE IF s[Len(s)] \in Whitespace THEN trimEnd(SubSeq(s, 1, Len(s) - 1)) ELSE s

trim(s) == trimEnd(trimStart(s))

\* s.includes(f)
includes(s, f) ==
  \E st \in 0..(Len(s) - Len(f)) : SubSeq(s, st + 1, st + Len(f)) = f

\* ------------------------------------------------------------------------
\* Optional strings and exceptions
\* ------------------------------------------------------------------------
Undefined == [raised |-> FALSE, defined |-> FALSE, val |-> <<>>]
Some(s) == [raised |-> FALSE, defined |-> TRUE, val |-> s]
Raised == [raised |-> TRUE, defined |-> FALSE, val |-> <<>>]

\* ------------------------------------------------------------------------
\* new RegExp(pattern, "i") for the pattern language
\*   literal character | "." | "^" | "(" (an unterminated group)
\* ------------------------------------------------------------------------
RegExpValid(p) == \A i \in 1..Len(p) : p[i] # "("

RECURSIVE RegExpMatchHere(_, _, _, _)
RegExpMatchHere(p, i, s, pos) ==
  IF i > Len(p) THEN TRUE
  ELSE IF p[i] = "^" THEN pos = 0 /\ RegExpMatchHere(p, i + 1, s, pos)
  ELSE IF pos >= Len(s) THEN FALSE
  ELSE IF p[i] = "." THEN RegExpMatchHere(p, i + 1, s, pos + 1)
  ELSE /\ toLowerCaseChar(p[i]) = toLowerCaseChar(s[pos + 1])
       /\ RegExpMatchHere(p, i + 1, s, pos + 1)

\* re.test(s), re built with the "i" flag
RegExpTest(p, s) == \E st \in 0..Len(s) : RegExpMatchHere(p, 1, s, st)

\* label.match(/^([^:]+):\s*/)?.[1] : the text before the first colon,
\* when there is at least one character before it
FirstColon(s) ==
  IF \E i \in 1..Len(s) : s[i] = ":"
  THEN CHOOSE i \in 1..Len(s) : s[i] = ":" /\ \A j \in 1..(i - 1) : s[j] # ":"
  ELSE 0

prefixMatch(label) ==
  LET k == FirstColon(label)
  IN IF k > 1 THEN Some(SubSeq(label, 1, k - 1)) ELSE Undefined

\* ------------------------------------------------------------------------
\* Categorizer (sources.ts)
\* ------------------------------------------------------------------------
\* byLabel[label]
byLabelGet(byLabel, label) ==
  IF label \in DOMAIN byLabel THEN Some(byLabel[label]) ELSE Undefined

\* for (const r of rules) { try { if (re.test(label)) return r.category } catch {} }
\* Undefined stands for "the loop fell through".
RECURSIVE rulesLoopRaising(_, _, _)
rulesLoopRaising(label, rules, i) ==
  IF i > Len(rules) THEN Undefined
  ELSE IF ~RegExpValid(rules[i].pattern) THEN Raised
  ELSE IF RegExpTest(rules[i].pattern, label) THEN Some(rules[i].category)
  ELSE rulesLoopRaising(label, rules, i + 1)

RECURSIVE rulesLoopLastWins(_, _, _)
rulesLoopLastWins(label, rules, i) ==
  IF i > Len(rules) THEN Undefined
  ELSE LET rest == rulesLoopLastWins(label, rules, i + 1)
       IN IF rest.defined THEN rest
          ELSE IF RegExpValid(rules[i].pattern) /\ RegExpTest(rules[i].pattern, label)
               THEN Some(rules[i].category)
               ELSE Undefined

RECURSIVE rulesLoop(_, _, _)
rulesLoop(label, rules, i) ==
  IF i > Len(rules) THEN Undefined
  ELSE IF RegExpValid(rules[i].pattern) /\ RegExpTest(rules[i].pattern, label)
       THEN Some(rules[i].category)
       ELSE rulesLoop(label, rules, i + 1)

resolveCategoryRulesFirst(label, rules, byLabel) ==
  LET exact == byLabelGet(byLabel, label)
      hit == rulesLoop(label, rules, 1)
      m == prefixMatch(label)
  IN IF hit.raised \/ hit.defined THEN hit
     ELSE IF exact.defined /\ exact.val # <<>> /\ trim(exact.val) # <<>>
          THEN Some(trim(exact.val))
     ELSE IF m.defined THEN Some(trim(m.val))
     ELSE Undefined

resolveTaskCategory(label, rules, byLabel) ==
  LET exact == byLabelGet(byLabel, label)
      hit == rulesLoop(label, rules, 1)
      m == prefixMatch(label)
  IN IF exact.defined /\ exact.val # <<>> /\ trim(exact.val) # <<>>
     THEN Some(trim(exact.val))
     ELSE IF hit.raised \/ hit.defined THEN hit
     ELSE IF m.defined THEN Some(trim(m.val))
     ELSE Undefined

resolveLaunchCategory(name, rules, byLabel) ==
  LET exact == byLabelGet(byLabel, name)
      hit == rulesLoop(name, rules, 1)
      m == prefixMatch(name)
  IN IF exact.defined /\ exact.val # <<>> /\ trim(exact.val) # <<>>
     THEN Some(trim(exact.val))
     ELSE IF hit.raised \/ hit.defined THEN hit
     ELSE IF m.defined THEN Some(trim(m.val))
     ELSE Undefined

\* ------------------------------------------------------------------------
\* String.prototype.localeCompare and Array.prototype.sort
\* ------------------------------------------------------------------------
\* Collation weight of a character: white space, then punctuation, then the
\* letters in alphabetical order whatever their case.
CharWeight(c) ==
  CASE c = " " -> 0 [] c = "/" -> 1 [] c = ":" -> 2 [] c = "." -> 3
    [] c = "~" -> 4 [] c \in {"a", "A"} -> 10 [] c \in {"b", "B"} -> 11
    [] c \in {"c", "C"} -> 12 [] c \in {"d", "D"} -> 13 [] c \in {"e", "E"} -> 14
    [] c \in {"i", "I"} -> 15 [] c \in {"l", "L"} -> 16 [] c \in {"n", "N"} -> 17
    [] c \in {"p", "P"} -> 18 [] c \in {"t", "T"} -> 20 [] c \in {"u", "U"} -> 21
    [] c \in {"x", "X"} -> 30 [] c \in {"y", "Y"} -> 31 [] c \in {"z", "Z"} -> 32
    [] OTHER -> 40

RECURSIVE CompareWeights(_, _)
CompareWeights(a, b) ==
  IF a = <<>> /\ b = <<>> THEN 0
  ELSE IF a = <<>> THEN -1
  ELSE IF b = <<>> THEN 1
  ELSE IF CharWeight(Head(a)) < CharWeight(Head(b)) THEN -1
  ELSE IF CharWeight(Head(a)) > CharWeight(Head(b)) THEN 1
  ELSE CompareWeights(Tail(a), Tail(b))

\* Tie-break between strings that differ only in case: lower case first.
RECURSIVE CompareCase(_, _)
CompareCase(a, b) ==
  IF a = <<>> \/ b = <<>> THEN 0
  ELSE IF Head(a) = Head(b) THEN CompareCase(Tail(a), Tail(b))
  ELSE IF Head(a) = toLowerCaseChar(Head(a)) THEN -1 ELSE 1

localeCompare(a, b) ==
  LET w == CompareWeights(a, b) IN IF w # 0 THEN w ELSE CompareCase(a, b)

\* The strings a comparator compares, in the order of its || chain. Tasks
\* without a category sort as "~".
SortKey(mode, a) ==
  CASE mode = "name" -> <<a.name>>
    [] mode = "label" -> <<a.label>>
    [] mode = "string" -> <<a>>
    [] mode = "launch" -> <<a.source.label, a.name>>
    [] mode = "task" ->
         <<IF a.category.defined THEN a.category.val ELSE <<"~">>,
           a.source.label, a.name>>

\* x.localeCompare(..) || y.localeCompare(..) || ...
RECURSIVE CompareKeys(_, _)
CompareKeys(ka, kb) ==
  IF ka = <<>> THEN 0
  ELSE IF localeCompare(Head(ka), Head(kb)) # 0
       THEN localeCompare(Head(ka), Head(kb))
       ELSE CompareKeys(Tail(ka), Tail(kb))

\* The comparators the code passes to sort().
Compare(mode, a, b) == CompareKeys(SortKey(mode, a), SortKey(mode, b))

\* an array left in the order it had
sortKeepingOrder(arr, mode) == arr

\* Stable order: the element at position i stays before the one at j when
\* it compares smaller, or equal and i < j.
Precedes(mode, arr, i, j) == Compare(mode, arr[i], arr[j]) < (IF i < j THEN 1 ELSE 0)

\* arr.sort(comparator): stable
sort(arr, mode) ==
  [k \in 1..Len(arr) |->
     arr[CHOOSE j \in 1..Len(arr) :
           Cardinality({i \in 1..Len(arr) : Precedes(mode, arr, i, j)}) + 1 = k]]

\* ------------------------------------------------------------------------
\* Source loader (sources.ts)
\*
\* The environment read by a load is a record env:
\*   folders            vscode.workspace.workspaceFolders (a sequence)
\*   launchJson[wf]     .vscode/launch.json   [ok, entries]; ok is FALSE when
\*   tasksJson[wf]      .vscode/tasks.json     the file is missing, malformed
\*   notebooksJson[wf]  .vscode/notebooks.json or has no array in it
\*   userSettings       a user settings.json exists at a candidate path
\*   userLaunches, userTasks, rules, byLabel, userNotebookPaths
\*                      the betterRun.* configuration
\* An entry is [name, category]; a missing field is the empty string (the
\* code reads both through ?? "" or a truthiness test).
\* ------------------------------------------------------------------------
NoFolder == "none"

NoSource ==
  [id |-> <<"none">>, label |-> <<>>, workspaceFolder |-> NoFolder,
   kind |-> "none", isUserSettings |-> FALSE]

NoEntry == [name |-> <<>>, category |-> <<>>]

\* s.endsWith(suffix)
endsWith(s, suffix) ==
  /\ Len(s) >= Len(suffix)
  /\ SubSeq(s, Len(s) - Len(suffix) + 1, Len(s)) = suffix

DotIpynb == <<".", "i", "p", "y", "n", "b">>

\* s.replace(/\.ipynb$/, '')
stripIpynb(s) ==
  IF endsWith(s, DotIpynb) THEN SubSeq(s, 1, Len(s) - Len(DotIpynb)) ELSE s

\* s.split(/[/\\]/).pop()
RECURSIVE lastSegment(_)
lastSegment(s) ==
  IF \E i \in 1..Len(s) : s[i] = "/"
  THEN lastSegment(Tail(s))
  ELSE s

\* The file system below the notebook paths: a file, a directory with its
\* entries [name, type], or nothing (stat throws).
P_abs == <<"/", "x", "y", "z", ".", "i", "p", "y", "n", "b">>
P_dir == <<"n", "b">>
P_txt == <<"/", "a", ".", "b">>
F_ab == <<"a", "b", ".", "i", "p", "y", "n", "b">>
F_Xyz == <<"X", "y", "z", ".", "i", "p", "y", "n", "b">>
F_txt == <<"a", ".", "b">>

FsStat(uri) ==
  IF uri = [base |-> NoFolder, path |-> P_abs] THEN [type |-> "file", entries |-> <<>>]
  ELSE IF uri = [base |-> NoFolder, path |-> P_txt] THEN [type |-> "file", entries |-> <<>>]
  ELSE IF uri.base # NoFolder /\ uri.path = P_dir
       THEN [type |-> "dir",
             entries |-> <<[name |-> F_ab, type |-> "file"],
                           [name |-> F_txt, type |-> "file"],
                           [name |-> F_Xyz, type |-> "file"]>>]
  ELSE [type |-> "missing", entries |-> <<>>]

\* resolveNotebookPath: absolute paths as they are, relative ones under the
\* workspace folder, and nothing for a relative path without a folder
resolveNotebookPath(path, workspaceFolder) ==
  IF path # <<>> /\ Head(path) = "/"
  THEN [ok |-> TRUE, uri |-> [base |-> NoFolder, path |-> path]]
  ELSE IF workspaceFolder # NoFolder
       THEN [ok |-> TRUE, uri |-> [base |-> workspaceFolder, path |-> path]]
       ELSE [ok |-> FALSE, uri |-> [base |-> NoFolder, path |-> <<>>]]

NotebookItem(uri, name, workspaceFolder, isLocal) ==
  [kind |-> "notebook", id |-> <<"notebook", uri.base, uri.path>>, name |-> name,
   category |-> Undefined, config |-> NoEntry,
   workspaceFolder |-> workspaceFolder, source |-> NoSource, isLocal |-> isLocal]

loadNotebooksFromPath(notebookPath, workspaceFolder, isLocal) ==
  LET r == resolveNotebookPath(notebookPath, workspaceFolder)
      stat == FsStat(r.uri)
      files == SelectSeq(stat.entries,
                 LAMBDA e : e.type = "file" /\ endsWith(e.name, DotIpynb))
  IN IF ~r.ok THEN <<>>
     ELSE IF stat.type = "file" /\ endsWith(r.uri.path, DotIpynb)
          THEN <<NotebookItem(r.uri,
                              IF stripIpynb(lastSegment(r.uri.path)) = <<>>
                              THEN <<"n", "b">>
                              ELSE stripIpynb(lastSegment(r.uri.path)),
                              workspaceFolder, isLocal)>>
     ELSE IF stat.type = "dir"
          THEN [i \in 1..Len(files) |->
                  NotebookItem([base |-> r.uri.base,
                                path |-> r.uri.path \o <<"/">> \o files[i].name],
                               stripIpynb(files[i].name), workspaceFolder, isLocal)]
     ELSE <<>>

\* Concatenation of a sequence of sequences
RECURSIVE Flatten(_)
Flatten(ss) == IF ss = <<>> THEN <<>> ELSE Head(ss) \o Flatten(Tail(ss))

\* every entry kept, named or not
HasNameAlways(e) == TRUE

HasName(e) == trim(e.name) # <<>>

\* (c.category && String(c.category).trim()) ? String(c.category).trim() : resolve...
explicitCategory(e) == e.category # <<>> /\ trim(e.category) # <<>>

\* Source labels: "l" for "launch.json", "t" for "tasks.json", "U" for
\* "User settings"
LaunchSource(wf) ==
  [id |-> <<"launch", wf>>, label |-> <<"l">>, workspaceFolder |-> wf,
   kind |-> "launches", isUserSettings |-> FALSE]

TaskSource(wf) ==
  [id |-> <<"task", wf>>, label |-> <<"t">>, workspaceFolder |-> wf,
   kind |-> "tasks", isUserSettings |-> FALSE]

UserLaunchSource ==
  [id |-> <<"launch", "usersettings">>, label |-> <<"U">>, workspaceFolder |-> NoFolder,
   kind |-> "launches", isUserSettings |-> TRUE]

UserTaskSource ==
  [id |-> <<"task", "usersettings">>, label |-> <<"U">>, workspaceFolder |-> NoFolder,
   kind |-> "tasks", isUserSettings |-> TRUE]

LaunchItem(source, e, env) ==
  [kind |-> "launch", id |-> source.id \o trim(e.name), name |-> trim(e.name),
   category |-> IF explicitCategory(e) THEN Some(trim(e.category))
                ELSE resolveLaunchCategory(trim(e.name), env.rules, env.byLabel),
   config |-> e, workspaceFolder |-> source.workspaceFolder, source |-> source,
   isLocal |-> FALSE]

\* tasks.json entries: the category field of the entry is not read
WorkspaceTaskItem(source, e, env) ==
  [kind |-> "task", id |-> source.id \o trim(e.name), name |-> trim(e.name),
   category |-> resolveTaskCategory(trim(e.name), env.rules, env.byLabel),
   config |-> NoEntry, workspaceFolder |-> source.workspaceFolder, source |-> source,
   isLocal |-> FALSE]

\* a user task categorized automatically, its category field not read
UserTaskItemIgnoringField(source, e, env) ==
  [kind |-> "task", id |-> source.id \o trim(e.name), name |-> trim(e.name),
   category |-> resolveTaskCategory(trim(e.name), env.rules, env.byLabel),
   config |-> e, workspaceFolder |-> NoFolder, source |-> source,
   isLocal |-> FALSE]

\* (t.category && String(t.category).trim()) || resolveTaskCategory(...)
UserTaskItem(source, e, env) ==
  [kind |-> "task", id |-> source.id \o trim(e.name), name |-> trim(e.name),
   category |-> IF explicitCategory(e) THEN Some(trim(e.category))
                ELSE resolveTaskCategory(trim(e.name), env.rules, env.byLabel),
   config |-> e, workspaceFolder |-> NoFolder, source |-> source,
   isLocal |-> FALSE]

ItemsOf(entries, source, env, kind) ==
  LET named == SelectSeq(entries, HasName)
  IN [i \in 1..Len(named) |->
        CASE kind = "launch" -> LaunchItem(source, named[i], env)
          [] kind = "task" -> WorkspaceTaskItem(source, named[i], env)
          [] kind = "userTask" -> UserTaskItem(source, named[i], env)]

loadLaunchesAndTasks(env) ==
  LET wfs == env.folders
      okLaunch == SelectSeq(wfs, LAMBDA wf : env.launchJson[wf].ok)
      okTasks == SelectSeq(wfs, LAMBDA wf : env.tasksJson[wf].ok)
      okNotebooks == SelectSeq(wfs, LAMBDA wf : env.notebooksJson[wf].ok)
      userL == env.userSettings /\ env.userLaunches # <<>>
      userT == env.userSettings /\ env.userTasks # <<>>
      launchSources ==
        [i \in 1..Len(okLaunch) |-> LaunchSource(okLaunch[i])]
          \o (IF userL THEN <<UserLaunchSource>> ELSE <<>>)
      taskSources ==
        [i \in 1..Len(okTasks) |-> TaskSource(okTasks[i])]
          \o (IF userT THEN <<UserTaskSource>> ELSE <<>>)
      launches ==
        Flatten([i \in 1..Len(okLaunch) |->
                   ItemsOf(env.launchJson[okLaunch[i]].entries,
                           LaunchSource(okLaunch[i]), env, "launch")])
          \o (IF userL
              THEN ItemsOf(env.userLaunches, UserLaunchSource, env, "launch")
              ELSE <<>>)
      tasks ==
        Flatten([i \in 1..Len(okTasks) |->
                   ItemsOf(env.tasksJson[okTasks[i]].entries,
                           TaskSource(okTasks[i]), env, "task")])
          \o (IF userT
              THEN ItemsOf(env.userTasks, UserTaskSource, env, "userTask")
              ELSE <<>>)
      pathsOf(wf) ==
        SelectSeq(env.notebooksJson[wf].paths, LAMBDA q : trim(q) # <<>>)
      wsNotebooks ==
        Flatten([i \in 1..Len(okNotebooks) |->
                   Flatten([j \in 1..Len(pathsOf(okNotebooks[i])) |->
                              loadNotebooksFromPath(
                                trim(pathsOf(okNotebooks[i])[j]),
                                okNotebooks[i], FALSE)])])
      userPaths ==
        SelectSeq(env.userNotebookPaths, LAMBDA q : q # <<>> /\ trim(q) # <<>>)
      userNotebooks ==
        Flatten([j \in 1..Len(userPaths) |->
                   loadNotebooksFromPath(trim(userPaths[j]), NoFolder, TRUE)])
      all == launches \o tasks
  IN [raised |-> \E i \in 1..Len(all) : all[i].category.raised,
      launchSources |-> sort(launchSources, "label"),
      launches |-> sort(launches, "launch"),
      taskSources |-> sort(taskSources, "label"),
      tasks |-> sort(tasks, "task"),
      notebooks |-> sort(wsNotebooks \o userNotebooks, "name")]

\* ------------------------------------------------------------------------
\* Aggregation: the synchronous part of BetterRunTreeProvider.refresh
\* A JavaScript Map is a function on its key set; the innermost Map
\* (source id -> items), whose iteration order the tree shows, is a sequence
\* of [sourceId, source, items] in insertion order.
\* ------------------------------------------------------------------------
USER_WORKSPACE_KEY == <<"ws", "user">>

workspaceKeyFromFolder(wf) ==
  IF wf # NoFolder THEN <<"ws", wf>> ELSE USER_WORKSPACE_KEY

EmptyMap == [k \in {} |-> <<>>]

MapGet(m, k, default) == IF k \in DOMAIN m THEN m[k] ELSE default

Range(s) == {s[i] : i \in 1..Len(s)}

\* The distinct elements of a sequence, in order of first appearance
Dedup(s) ==
  LET first == SelectSeq([i \in 1..Len(s) |-> i],
                         LAMBDA i : \A j \in 1..(i - 1) : s[j] # s[i])
  IN [k \in 1..Len(first) |-> s[first[k]]]

\* a category kept as a category whenever it is defined, blank or not
normalizedCategoryKeepingBlank(x) ==
  IF x.category.defined THEN Some(trim(x.category.val)) ELSE Undefined

\* (x.category && x.category.trim()) ? x.category.trim() : undefined
normalizedCategory(x) ==
  IF x.category.defined /\ x.category.val # <<>> /\ trim(x.category.val) # <<>>
  THEN Some(trim(x.category.val))
  ELSE Undefined

itemWorkspaceKey(x) == workspaceKeyFromFolder(x.workspaceFolder)

\* nb.isLocal ? USER_WORKSPACE_KEY : workspaceKeyFromFolder(nb.workspaceFolder)
notebookWorkspaceKey(nb) ==
  IF nb.isLocal THEN USER_WORKSPACE_KEY ELSE workspaceKeyFromFolder(nb.workspaceFolder)

WorkspaceNode(wf) ==
  [kind |-> "workspace", key |-> workspaceKeyFromFolder(wf), name |-> wf,
   workspaceFolder |-> wf]

\* this.workspaces
buildWorkspaces(folders, L) ==
  LET hasUser ==
        \/ \E i \in 1..Len(L.launchSources) : L.launchSources[i].workspaceFolder = NoFolder
        \/ \E i \in 1..Len(L.taskSources) : L.taskSources[i].workspaceFolder = NoFolder
        \/ \E i \in 1..Len(L.notebooks) : L.notebooks[i].isLocal
  IN [i \in 1..Len(folders) |-> WorkspaceNode(folders[i])]
       \o (IF hasUser
           THEN <<[kind |-> "workspace", key |-> USER_WORKSPACE_KEY,
                   name |-> "Local", workspaceFolder |-> NoFolder]>>
           ELSE <<>>)

\* this.notebooksByWorkspace
buildNotebooksByWorkspace(notebooks) ==
  [wk \in {notebookWorkspaceKey(notebooks[i]) : i \in 1..Len(notebooks)} |->
     sort(SelectSeq(notebooks, LAMBDA nb : notebookWorkspaceKey(nb) = wk), "name")]

\* this.launchSourcesByWorkspace
buildSourcesByWorkspace(sources) ==
  [wk \in {itemWorkspaceKey(sources[i]) : i \in 1..Len(sources)} |->
     sort(SelectSeq(sources, LAMBDA s : itemWorkspaceKey(s) = wk), "label")]

\* top-level items dropped instead of stored
buildTopLevelByWorkspaceDropping(items) == EmptyMap

\* this.topLevelLaunchesByWorkspace, this.topLevelTasksByWorkspace
buildTopLevelByWorkspace(items) ==
  LET top == SelectSeq(items, LAMBDA x : ~normalizedCategory(x).defined)
  IN [wk \in {itemWorkspaceKey(top[i]) : i \in 1..Len(top)} |->
        sort(SelectSeq(top, LAMBDA x : itemWorkspaceKey(x) = wk), "name")]

Categorized(items) == SelectSeq(items, LAMBDA x : normalizedCategory(x).defined)

CategoriesIn(items, wk) ==
  LET here == SelectSeq(Categorized(items), LAMBDA x : itemWorkspaceKey(x) = wk)
  IN Dedup([i \in 1..Len(here) |-> normalizedCategory(here[i]).val])

\* this.launchCategoriesByWorkspace, this.taskCategoriesByWorkspace
buildCategoriesByWorkspace(items) ==
  LET cat == Categorized(items)
  IN [wk \in {itemWorkspaceKey(cat[i]) : i \in 1..Len(cat)} |->
        sort(CategoriesIn(items, wk), "string")]

\* The items of one workspace and category
CategoryBucket(cat, wk, c) ==
  SelectSeq(cat, LAMBDA x : itemWorkspaceKey(x) = wk /\ normalizedCategory(x).val = c)

SourcesOf(bucket) == Dedup([i \in 1..Len(bucket) |-> bucket[i].source])

\* The innermost Map of one category: source id -> items sorted by name
SourceBuckets(bucket, srcs) ==
  [j \in 1..Len(srcs) |->
     [sourceId |-> srcs[j].id,
      source |-> srcs[j],
      items |-> sort(SelectSeq(bucket, LAMBDA x : x.source.id = srcs[j].id), "name")]]

CategoryMap(cat, wk) ==
  [c \in {normalizedCategory(cat[i]).val :
            i \in {k \in 1..Len(cat) : itemWorkspaceKey(cat[k]) = wk}} |->
     SourceBuckets(CategoryBucket(cat, wk, c), SourcesOf(CategoryBucket(cat, wk, c)))]

WorkspaceKeysOf(items) == {itemWorkspaceKey(items[i]) : i \in 1..Len(items)}

\* this.launchesByWorkspaceCategorySource, this.tasksByWorkspaceCategorySource
buildByWorkspaceCategorySource(items) ==
  [wk \in WorkspaceKeysOf(Categorized(items)) |-> CategoryMap(Categorized(items), wk)]

SourcesByCategory(catMap) ==
  [c \in DOMAIN catMap |->
     sort([j \in 1..Len(catMap[c]) |-> catMap[c][j].source], "label")]

\* this.launchSourcesByWorkspaceCategory, this.taskSourcesByWorkspaceCategory
buildSourcesByWorkspaceCategory(items) ==
  [wk \in WorkspaceKeysOf(Categorized(items)) |->
     SourcesByCategory(CategoryMap(Categorized(items), wk))]

\* ------------------------------------------------------------------------
\* State
\* ------------------------------------------------------------------------
VARIABLES
  \* categorizer harness: the arguments and the value returned
  catLabel, catRules, catByLabel, catOut,
  \* the environment: workspace folders, documents on disk, betterRun.* settings
  workspaceFolders, files, config,
  \* load harness: the value returned by loadLaunchesAndTasks
  loadOut,
  \* Storage: betterRun.nameFilter
  nameFilter,
  \* refreshes whose awaited load has returned and whose continuation has not run
  pending,
  \* BetterRunTreeProvider fields
  workspaces, notebooksByWorkspace, launchSourcesByWorkspace,
  launchesByWorkspaceAndSource, topLevelLaunchesByWorkspace,
  launchCategoriesByWorkspace, launchesByWorkspaceCategorySource,
  launchSourcesByWorkspaceCategory, topLevelTasksByWorkspace,
  taskCategoriesByWorkspace, tasksByWorkspaceCategorySource,
  taskSourcesByWorkspaceCategory,
  \* history: the load result the last completed refresh aggregated, and the
  \* number of changes made to the environment
  lastLoad, edits,
  \* BetterRunTreeProvider run state: the ids shown as running
  runningLaunches, runningTasks,
  \* extension.ts: the launch last run or debugged, and the executions started
  lastLaunch, execs,
  \* extension.ts, activate: double-click tracking and the clock it reads
  lastSelection, clickTimeout, now,
  \* history: the selection event delivered last
  prevSelection,
  \* the invocations of runFileAsLaunch / debugFileAsLaunch
  fileCalls

catVars == <<catLabel, catRules, catByLabel, catOut>>

envVars == <<workspaceFolders, files, config>>

providerVars ==
  <<workspaces, notebooksByWorkspace, launchSourcesByWorkspace,
    launchesByWorkspaceAndSource, topLevelLaunchesByWorkspace,
    launchCategoriesByWorkspace, launchesByWorkspaceCategorySource,
    launchSourcesByWorkspaceCategory, topLevelTasksByWorkspace,
    taskCategoriesByWorkspace, tasksByWorkspaceCategorySource,
    taskSourcesByWorkspaceCategory, lastLoad>>

runVars == <<runningLaunches, runningTasks>>

clickVars == <<lastSelection, clickTimeout, now, prevSelection>>

extVars == <<runVars, lastLaunch, execs, clickVars, fileCalls>>

vars ==
  <<catVars, envVars, loadOut, nameFilter, pending, providerVars, edits, extVars>>

\* ------------------------------------------------------------------------
\* Bounds and input sets
\* ------------------------------------------------------------------------
MaxLoadEntries == 2
MaxInFlight == 2
MaxEdits == 1
MaxExecs == 2
\* the polls after which a terminal task is given up (maxPolls, 600 in the code)
MaxPolls == 2

RECURSIVE SeqsUpTo(_, _)
SeqsUpTo(S, n) ==
  IF n = 0 THEN {<<>>}
  ELSE LET shorter == SeqsUpTo(S, n - 1)
       IN shorter \cup {Append(s, x) : s \in shorter, x \in S}

AllFolders == {"w1"}

\* What readJsonc gives for a document: ok is "json && Array.isArray(...)",
\* fault records how reading the document went.
Missing == [ok |-> FALSE, entries |-> <<>>, paths |-> <<>>, fault |-> "none"]
Doc(entries) == [ok |-> TRUE, entries |-> entries, paths |-> <<>>, fault |-> "none"]
PathsDoc(paths) == [ok |-> TRUE, entries |-> <<>>, paths |-> paths, fault |-> "none"]

\* readFile throws: the catch of readJsonc returns undefined
Unreadable == [ok |-> FALSE, entries |-> <<>>, paths |-> <<>>, fault |-> "read"]

\* The text has a syntax error: parse(text) is called without an errors
\* array and returns the value it recovered, which is nothing usable
\* (Missing) or a document
Malformed(recovered) == [recovered EXCEPT !.fault = "parse"]

Entry(name, category) == [name |-> name, category |-> category]

\* categorizer harness
LabelChars == {"a", ":", " "}
CatLabels == SeqsUpTo(LabelChars, MaxLabelLen)
RuleCategories == {<<>>, <<"C">>, <<" ", "D">>}
RulePatterns == {<<"A">>, <<"^", ":">>, <<"(">>}
RuleSet == [category : RuleCategories, pattern : RulePatterns]
CatRuleLists == SeqsUpTo(RuleSet, MaxRules)
ExactKeys == {<<"a">>, <<"a", ":", " ">>}
ExactValues == {<<" ">>, <<" ", "E">>}
ByLabelMaps == {EmptyMap} \cup {[k \in {key} |-> v] : key \in ExactKeys, v \in ExactValues}

\* load harness
LoadNames == {<<"a">>, <<" ", "a", ":", "a">>, <<" ">>, <<>>}
LoadCategories == {<<>>, <<" ">>, <<" ", "C">>}
LoadEntries ==
  {Entry(<<"a">>, <<>>), Entry(<<"a">>, <<" ">>), Entry(<<"a">>, <<" ", "C">>),
   Entry(<<" ", "a", ":", "a">>, <<>>), Entry(<<" ", "a", ":", "a">>, <<" ", "C">>),
   Entry(<<" ">>, <<>>), Entry(<<>>, <<" ", "C">>)}
LoadEntryLists == SeqsUpTo(LoadEntries, MaxLoadEntries)
LoadRuleLists ==
  {<<>>,
   <<[category |-> <<" ", "D">>, pattern |-> <<"A">>]>>,
   <<[category |-> <<"C">>, pattern |-> <<"(">>],
     [category |-> <<>>, pattern |-> <<"^", "a">>]>>}
LoadByLabelMaps == {EmptyMap, [k \in {<<"a">>} |-> <<" ", "E">>]}

\* loads over documents that fail to read or to parse
P_gone == <<"/", "q">>
FaultEntryLists == {<<>>, <<Entry(<<"a">>, <<>>)>>}
FaultDocs ==
  {Missing, Unreadable, Malformed(Missing)}
    \cup {Doc(es) : es \in FaultEntryLists}
    \cup {Malformed(Doc(es)) : es \in FaultEntryLists}
FaultNotebookDocs ==
  {Missing, Unreadable, PathsDoc(<<P_dir>>), Malformed(PathsDoc(<<P_dir>>))}
FaultNotebookPaths == {<<>>, <<P_gone, P_abs>>, <<P_dir, P_abs>>}

\* aggregation of loads whose rules yield blank and untrimmed categories
AggRuleLists ==
  {<<>>,
   <<[category |-> <<" ">>, pattern |-> <<"^", "a">>]>>,
   <<[category |-> <<>>, pattern |-> <<"A">>]>>,
   <<[category |-> <<" ", "D">>, pattern |-> <<"A">>]>>}
AggEntryLists ==
  {<<Entry(<<"a">>, <<>>), Entry(<<"A", "b">>, <<"C">>),
     Entry(<<"x", "y", "z", "z", "y">>, <<>>)>>,
   <<Entry(<<"a", ":", "a">>, <<>>)>>}

\* tree provider
N_xyzzy == <<"x", "y", "z", "z", "y">>
N_Xyz == <<"X", "y", "z">>
N_Ab == <<"A", "b">>
N_c_ab == <<"c", ":", "a", "b">>
N_c_Xyz == <<"c", ":", "X", "y", "z">>
TreeLaunchDocs ==
  {Missing,
   Doc(<<Entry(N_xyzzy, <<"C">>), Entry(N_Ab, <<>>), Entry(N_Ab, <<"C">>),
         Entry(N_Ab, <<"D">>)>>)}
TreeTaskDocs ==
  {Missing,
   Doc(<<Entry(N_xyzzy, <<>>)>>),
   Doc(<<Entry(N_c_ab, <<>>), Entry(N_xyzzy, <<>>), Entry(N_c_Xyz, <<>>)>>)}
TreeNotebookDocs == {Missing, PathsDoc(<<P_dir>>)}
TreeUserTasks == {<<>>, <<Entry(N_Xyz, <<"C">>)>>}
TreeUserNotebookPaths == {<<>>, <<P_abs>>}
FilterInputs == {<<" ", "X", "Y", "Z">>}
FilterLowers == {<<>>, <<"x", "y", "z">>, <<"a", "b">>, <<"c">>}

\* ------------------------------------------------------------------------
\* The environment as the loader reads it
\* ------------------------------------------------------------------------
EnvOf(folders, f, c) ==
  [folders |-> folders,
   launchJson |-> f.launchJson, tasksJson |-> f.tasksJson,
   notebooksJson |-> f.notebooksJson, userSettings |-> f.userSettings,
   userLaunches |-> c.userLaunches, userTasks |-> c.userTasks,
   rules |-> c.taskCategoryRules, byLabel |-> c.taskCategoryByLabel,
   userNotebookPaths |-> c.userNotebookPaths]

CurrentEnv == EnvOf(workspaceFolders, files, config)

EmptyFiles ==
  [launchJson |-> [wf \in AllFolders |-> Missing],
   tasksJson |-> [wf \in AllFolders |-> Missing],
   notebooksJson |-> [wf \in AllFolders |-> Missing],
   userSettings |-> FALSE]

EmptyConfig ==
  [userLaunches |-> <<>>, userTasks |-> <<>>, taskCategoryRules |-> <<>>,
   taskCategoryByLabel |-> EmptyMap, userNotebookPaths |-> <<>>]

NoLoad ==
  [raised |-> FALSE, launchSources |-> <<>>, launches |-> <<>>,
   taskSources |-> <<>>, tasks |-> <<>>, notebooks |-> <<>>]

\* ------------------------------------------------------------------------
\* Initial states
\* ------------------------------------------------------------------------
NotCalled == [fn |-> "none", result |-> Undefined]

CatIdle ==
  /\ catLabel = <<>>
  /\ catRules = <<>>
  /\ catByLabel = EmptyMap
  /\ catOut = NotCalled

\* new BetterRunTreeProvider(storage)
ProviderConstructed ==
  /\ workspaces = <<>>
  /\ notebooksByWorkspace = EmptyMap
  /\ launchSourcesByWorkspace = EmptyMap
  /\ launchesByWorkspaceAndSource = EmptyMap
  /\ topLevelLaunchesByWorkspace = EmptyMap
  /\ launchCategoriesByWorkspace = EmptyMap
  /\ launchesByWorkspaceCategorySource = EmptyMap
  /\ launchSourcesByWorkspaceCategory = EmptyMap
  /\ topLevelTasksByWorkspace = EmptyMap
  /\ taskCategoriesByWorkspace = EmptyMap
  /\ tasksByWorkspaceCategorySource = EmptyMap
  /\ taskSourcesByWorkspaceCategory = EmptyMap
  /\ lastLoad = [done |-> FALSE, result |-> NoLoad]

NoLaunch == [id |-> <<>>, name |-> <<>>, cfgName |-> <<>>]

NoSelection == [nodeId |-> <<>>, timestamp |-> 0, set |-> FALSE]

\* activate() has run: nothing is running, nothing was executed or selected
ExtensionActivated ==
  /\ runningLaunches = {}
  /\ runningTasks = {}
  /\ lastLaunch = NoLaunch
  /\ execs = <<>>
  /\ lastSelection = NoSelection
  /\ clickTimeout = FALSE
  /\ now = 0
  /\ prevSelection = NoSelection
  /\ fileCalls = <<>>

InitCat ==
  /\ catLabel \in CatLabels
  /\ catRules \in CatRuleLists
  /\ catByLabel \in ByLabelMaps
  /\ catOut = NotCalled
  /\ workspaceFolders = <<>>
  /\ files = EmptyFiles
  /\ config = EmptyConfig
  /\ loadOut = [called |-> FALSE, result |-> NoLoad]
  /\ nameFilter = <<>>
  /\ pending = <<>>
  /\ ProviderConstructed
  /\ edits = 0
  /\ ExtensionActivated

\* One list of entries is written to each document and setting that is
\* present; every document is read by its own code.
InitLoad ==
  /\ CatIdle
  /\ workspaceFolders \in {<<>>, <<"w1">>}
  /\ \E es \in LoadEntryLists, hasL \in BOOLEAN, hasT \in BOOLEAN, hasUL \in BOOLEAN,
        hasUT \in BOOLEAN, hasNb \in BOOLEAN, us \in BOOLEAN,
        r \in LoadRuleLists, m \in LoadByLabelMaps :
       /\ workspaceFolders = <<>> => ~hasL /\ ~hasT
       /\ files = [launchJson |-> [wf \in AllFolders |-> IF hasL THEN Doc(es) ELSE Missing],
                   tasksJson |-> [wf \in AllFolders |-> IF hasT THEN Doc(es) ELSE Missing],
                   notebooksJson |->
                     [wf \in AllFolders |-> IF hasNb THEN PathsDoc(<<P_dir>>) ELSE Missing],
                   userSettings |-> us]
       /\ config = [userLaunches |-> IF hasUL THEN es ELSE <<>>,
                    userTasks |-> IF hasUT THEN es ELSE <<>>,
                    taskCategoryRules |-> r, taskCategoryByLabel |-> m,
                    userNotebookPaths |-> IF hasNb THEN <<P_abs, P_txt>> ELSE <<>>]
  /\ loadOut = [called |-> FALSE, result |-> NoLoad]
  /\ nameFilter = <<>>
  /\ pending = <<>>
  /\ ProviderConstructed
  /\ edits = 0
  /\ ExtensionActivated

\* One workspace folder whose documents are absent, unreadable, malformed or
\* valid, and user notebook paths that do not resolve or do not exist
InitFault ==
  /\ CatIdle
  /\ workspaceFolders = <<"w1">>
  /\ \E lj \in FaultDocs, tj \in FaultDocs, nj \in FaultNotebookDocs :
       files = [launchJson |-> [wf \in AllFolders |-> lj],
                tasksJson |-> [wf \in AllFolders |-> tj],
                notebooksJson |-> [wf \in AllFolders |-> nj],
                userSettings |-> FALSE]
  /\ \E ps \in FaultNotebookPaths :
       config = [EmptyConfig EXCEPT !.userNotebookPaths = ps]
  /\ loadOut = [called |-> FALSE, result |-> NoLoad]
  /\ nameFilter = <<>>
  /\ pending = <<>>
  /\ ProviderConstructed
  /\ edits = 0
  /\ ExtensionActivated

\* activate(): the provider is constructed and the initial refresh has called
\* the loader
Init ==
  /\ CatIdle
  /\ workspaceFolders \in {<<>>, <<"w1">>}
  /\ \E lj \in TreeLaunchDocs, tj \in TreeTaskDocs, nj \in TreeNotebookDocs, us \in BOOLEAN :
       /\ workspaceFolders = <<>> => lj = Missing /\ tj = Missing /\ nj = Missing
       /\ files = [launchJson |-> [wf \in AllFolders |-> lj],
                   tasksJson |-> [wf \in AllFolders |-> tj],
                   notebooksJson |-> [wf \in AllFolders |-> nj],
                   userSettings |-> us]
  /\ \E ut \in TreeUserTasks :
       /\ files.userSettings <=> ut # <<>>
       /\ config = [userLaunches |-> <<>>, userTasks |-> ut,
                    taskCategoryRules |-> <<>>, taskCategoryByLabel |-> EmptyMap,
                    userNotebookPaths |-> <<>>]
  /\ loadOut = [called |-> FALSE, result |-> NoLoad]
  /\ nameFilter = <<>>
  /\ pending = <<loadLaunchesAndTasks(CurrentEnv)>>
  /\ ProviderConstructed
  /\ edits = 0
  /\ ExtensionActivated

\* A refresh has called the loader in an environment whose category rules
\* return blank and untrimmed categories
InitAgg ==
  /\ CatIdle
  /\ workspaceFolders \in {<<>>, <<"w1">>}
  /\ \E es \in AggEntryLists, hasL \in BOOLEAN, hasT \in BOOLEAN, hasUL \in BOOLEAN,
        hasUT \in BOOLEAN, us \in BOOLEAN, r \in AggRuleLists :
       /\ workspaceFolders = <<>> => ~hasL /\ ~hasT
       /\ files = [launchJson |-> [wf \in AllFolders |-> IF hasL THEN Doc(es) ELSE Missing],
                   tasksJson |-> [wf \in AllFolders |-> IF hasT THEN Doc(es) ELSE Missing],
                   notebooksJson |-> [wf \in AllFolders |-> Missing],
                   userSettings |-> us]
       /\ config = [userLaunches |-> IF hasUL THEN es ELSE <<>>,
                    userTasks |-> IF hasUT THEN es ELSE <<>>,
                    taskCategoryRules |-> r, taskCategoryByLabel |-> EmptyMap,
                    userNotebookPaths |-> <<>>]
  /\ loadOut = [called |-> FALSE, result |-> NoLoad]
  /\ nameFilter = <<>>
  /\ pending = <<loadLaunchesAndTasks(CurrentEnv)>>
  /\ ProviderConstructed
  /\ edits = 0
  /\ ExtensionActivated

\* ------------------------------------------------------------------------
\* Actions
\* ------------------------------------------------------------------------
CallResolveTaskCategory ==
  /\ catOut.fn = "none"
  /\ catOut' = [fn |-> "task",
                result |-> resolveTaskCategory(catLabel, catRules, catByLabel)]
  /\ UNCHANGED <<extVars, catLabel, catRules, catByLabel, envVars, loadOut, nameFilter,
                 pending, providerVars, edits>>

CallResolveLaunchCategory ==
  /\ catOut.fn = "none"
  /\ catOut' = [fn |-> "launch",
                result |-> resolveLaunchCategory(catLabel, catRules, catByLabel)]
  /\ UNCHANGED <<extVars, catLabel, catRules, catByLabel, envVars, loadOut, nameFilter,
                 pending, providerVars, edits>>

CallLoad ==
  /\ ~loadOut.called
  /\ loadOut' = [called |-> TRUE, result |-> loadLaunchesAndTasks(CurrentEnv)]
  /\ UNCHANGED <<extVars, catVars, envVars, nameFilter, pending, providerVars, edits>>

\* provider.refresh() up to its await: the loader is called and reads the
\* environment
BeginRefresh(env) ==
  /\ Len(pending) < MaxInFlight
  /\ pending' = Append(pending, loadLaunchesAndTasks(env))

\* betterRun.refresh
RefreshCommand ==
  /\ BeginRefresh(CurrentEnv)
  /\ UNCHANGED <<extVars, catVars, envVars, loadOut, nameFilter, providerVars, edits>>

\* betterRun.searchByName with the text typed into the input box
SearchByName(value) ==
  /\ nameFilter' = trim(value)
  /\ BeginRefresh(CurrentEnv)
  /\ UNCHANGED <<extVars, catVars, envVars, loadOut, providerVars, edits>>

\* betterRun.clearSearch
ClearSearch ==
  /\ nameFilter' = <<>>
  /\ BeginRefresh(CurrentEnv)
  /\ UNCHANGED <<extVars, catVars, envVars, loadOut, providerVars, edits>>

\* getChildren(undefined) on a provider without workspace nodes
GetChildrenRootRefresh ==
  /\ Len(workspaces) = 0
  /\ BeginRefresh(CurrentEnv)
  /\ UNCHANGED <<extVars, catVars, envVars, loadOut, nameFilter, providerVars, edits>>

\* a Map that keeps its entries where the code clears it
clearKeeping(m) == m

\* Map.prototype.clear
clear(m) == EmptyMap

\* arr = map.get(wk) ?? []; arr.push(x); map.set(wk, arr), for every item, and
\* then arr.sort(..) for every entry of the map
PushInto(m, built, mode) ==
  [wk \in DOMAIN m \cup DOMAIN built |->
     sort(MapGet(m, wk, <<>>) \o MapGet(built, wk, <<>>), mode)]

\* a Map.set that stores nothing
SetIntoNothing(m, built) == m

\* map.set(wk, value) for every entry of a Map built locally
SetInto(m, built) ==
  [wk \in DOMAIN m \cup DOMAIN built |->
     IF wk \in DOMAIN built THEN built[wk] ELSE m[wk]]

\* a continuation that takes the result of the oldest load in flight
awaitedOldest(loads, i) == loads[1]

\* "await loadLaunchesAndTasks()": the continuation of a refresh gets the
\* result of the load that this refresh started
awaited(loads, i) == loads[i]

\* The continuation of refresh() after the awaited load returned L
RefreshComplete(i) ==
  /\ i \in 1..Len(pending)
  /\ LET L == awaited(pending, i)
     IN /\ workspaces' = buildWorkspaces(workspaceFolders, L)
        /\ notebooksByWorkspace' =
             PushInto(clear(notebooksByWorkspace),
                      buildNotebooksByWorkspace(L.notebooks), "name")
        /\ launchSourcesByWorkspace' =
             PushInto(clear(launchSourcesByWorkspace),
                      buildSourcesByWorkspace(L.launchSources), "label")
        /\ launchesByWorkspaceAndSource' = clear(launchesByWorkspaceAndSource)
        /\ topLevelLaunchesByWorkspace' =
             PushInto(clear(topLevelLaunchesByWorkspace),
                      buildTopLevelByWorkspace(L.launches), "name")
        /\ launchCategoriesByWorkspace' =
             SetInto(clear(launchCategoriesByWorkspace),
                     buildCategoriesByWorkspace(L.launches))
        /\ launchesByWorkspaceCategorySource' =
             SetInto(clear(launchesByWorkspaceCategorySource),
                     buildByWorkspaceCategorySource(L.launches))
        /\ launchSourcesByWorkspaceCategory' =
             SetInto(clear(launchSourcesByWorkspaceCategory),
                     buildSourcesByWorkspaceCategory(L.launches))
        /\ topLevelTasksByWorkspace' =
             PushInto(clear(topLevelTasksByWorkspace),
                      buildTopLevelByWorkspace(L.tasks), "name")
        /\ taskCategoriesByWorkspace' =
             SetInto(clear(taskCategoriesByWorkspace),
                     buildCategoriesByWorkspace(L.tasks))
        /\ tasksByWorkspaceCategorySource' =
             SetInto(clear(tasksByWorkspaceCategorySource),
                     buildByWorkspaceCategorySource(L.tasks))
        /\ taskSourcesByWorkspaceCategory' =
             SetInto(clear(taskSourcesByWorkspaceCategory),
                     buildSourcesByWorkspaceCategory(L.tasks))
        /\ lastLoad' = [done |-> TRUE, result |-> L]
  /\ pending' = [j \in 1..(Len(pending) - 1) |->
                   IF j < i THEN pending[j] ELSE pending[j + 1]]
  /\ UNCHANGED <<extVars, catVars, envVars, loadOut, nameFilter, edits>>

\* tasks.json of a workspace folder is written, created or deleted
EditTasksJson(wf, doc) ==
  /\ edits < MaxEdits
  /\ files.tasksJson[wf] # doc
  /\ files' = [files EXCEPT !.tasksJson[wf] = doc]
  /\ edits' = edits + 1
  /\ UNCHANGED <<extVars, catVars, workspaceFolders, config, loadOut, nameFilter, pending,
                 providerVars>>

\* betterRun.userNotebookPaths is edited: onDidChangeConfiguration refreshes
ChangeUserNotebookPaths(np) ==
  /\ edits < MaxEdits
  /\ config.userNotebookPaths # np
  /\ config' = [config EXCEPT !.userNotebookPaths = np]
  /\ edits' = edits + 1
  /\ BeginRefresh(EnvOf(workspaceFolders, files, config'))
  /\ UNCHANGED <<extVars, catVars, workspaceFolders, files, loadOut, nameFilter, providerVars>>

\* betterRun.userTasks is edited: onDidChangeConfiguration runs, finds that
\* e.affectsConfiguration("betterRun.userNotebookPaths") is false and returns
ChangeUserTasks(ut) ==
  /\ edits < MaxEdits
  /\ config.userTasks # ut
  /\ config' = [config EXCEPT !.userTasks = ut]
  /\ edits' = edits + 1
  /\ UNCHANGED <<extVars, catVars, workspaceFolders, files, loadOut, nameFilter, pending,
                 providerVars>>

\* ------------------------------------------------------------------------
\* extension.ts: executions
\* An execution is a record: the item, the function that runs it, where it
\* is (pc), sessionMatched / taskMatched, whether its listeners are still
\* registered, and whether its session, task or command has started and is
\* live.
\* ------------------------------------------------------------------------
LaunchKinds == {"debug", "run"}

\* Two launches with the same name from two sources; the second is listed
\* with the name " a"
ExecLaunchItems ==
  {[id |-> <<"launch", "w1", "a">>, name |-> <<"a">>, cfgName |-> <<"a">>],
   [id |-> <<"launch", "usersettings", "a">>, name |-> <<"a">>,
    cfgName |-> <<" ", "a">>]}

NewExec(kind, item) ==
  [kind |-> kind, item |-> item, pc |-> "starting", matched |-> FALSE,
   listening |-> kind \in LaunchKinds, started |-> FALSE, live |-> FALSE,
   polls |-> 0]

\* cfg.name: "cfg.name || item.name" when debugging, item.name when running
SessionName(e) ==
  IF e.kind = "debug" /\ e.item.cfgName # <<>> THEN e.item.cfgName ELSE e.item.name

\* The executions whose listeners are registered and accept the name
Listeners(kinds, name) ==
  {j \in 1..Len(execs) :
     execs[j].kind \in kinds /\ execs[j].listening /\ execs[j].item.name = name}

IdsOf(js) == {execs[j].item.id : j \in js}

\* a setter that forgets the other members when it adds
setRunningAlone(running, ids, on) == IF on THEN ids ELSE running \ ids

\* setLaunchRunning(id, true) / setLaunchRunning(id, false)
setRunning(running, ids, on) == IF on THEN running \cup ids ELSE running \ ids

\* a slot that only debugging writes
trackLastDebugOnly(kind, item, last) == IF kind = "debug" THEN item ELSE last

\* "lastLaunch = item", in executeDebugLaunch and in executeRunLaunch
trackLast(kind, item, last) == item

\* executeDebugLaunch / executeRunLaunch up to "await startDebugging"
StartLaunch(kind, item) ==
  /\ Len(execs) < MaxExecs
  /\ lastLaunch' = trackLast(kind, item, lastLaunch)
  /\ runningLaunches' = setRunning(runningLaunches, {item.id}, TRUE)
  /\ execs' = Append(execs, NewExec(kind, item))

ExecuteLaunch(kind, item) ==
  /\ StartLaunch(kind, item)
  /\ UNCHANGED <<catVars, envVars, loadOut, nameFilter, pending, providerVars, edits,
                 runningTasks, clickVars, fileCalls>>

MaxOf(a, b) == IF a > b THEN a ELSE b

\* betterRun.debugLaunch / betterRun.runLaunch on a launch of the tree
LaunchCommand(kind, item) == ExecuteLaunch(kind, item)

\* "No launch has been run or debugged yet."
ShowNoLaunchMessage == lastLaunch = NoLaunch /\ UNCHANGED vars

\* betterRun.rerunLastLaunch
RerunLastLaunch ==
  IF lastLaunch = NoLaunch THEN ShowNoLaunchMessage
  ELSE ExecuteLaunch("run", lastLaunch)

\* betterRun.redebugLastLaunch
RedebugLastLaunch ==
  IF lastLaunch = NoLaunch THEN ShowNoLaunchMessage
  ELSE ExecuteLaunch("debug", lastLaunch)

\* startDebugging resolves to false
StartDebuggingFails(i) ==
  /\ i \in 1..Len(execs)
  /\ execs[i].kind \in LaunchKinds
  /\ execs[i].pc = "starting"
  /\ ~execs[i].started
  /\ runningLaunches' = setRunning(runningLaunches, {execs[i].item.id}, FALSE)
  /\ execs' = [execs EXCEPT ![i].pc = "failed", ![i].listening = FALSE]
  /\ UNCHANGED <<catVars, envVars, loadOut, nameFilter, pending, providerVars, edits,
                 runningTasks, lastLaunch, clickVars, fileCalls>>

\* the session of the execution starts: onDidStartDebugSession of every
\* execution
SessionStarts(i) ==
  /\ i \in 1..Len(execs)
  /\ execs[i].kind \in LaunchKinds
  /\ execs[i].pc = "starting"
  /\ ~execs[i].started
  /\ execs' =
       [j \in 1..Len(execs) |->
          [execs[j] EXCEPT
             !.started = @ \/ j = i,
             !.live = @ \/ j = i,
             !.matched = @ \/ j \in Listeners(LaunchKinds, SessionName(execs[i]))]]
  /\ UNCHANGED <<catVars, envVars, loadOut, nameFilter, pending, providerVars, edits,
                 runVars, lastLaunch, clickVars, fileCalls>>

\* startDebugging resolves to true: the fallback timer is set
StartDebuggingSucceeds(i) ==
  /\ i \in 1..Len(execs)
  /\ execs[i].kind \in LaunchKinds
  /\ execs[i].pc = "starting"
  /\ execs[i].started
  /\ execs' = [execs EXCEPT ![i].pc = "timer"]
  /\ UNCHANGED <<catVars, envVars, loadOut, nameFilter, pending, providerVars, edits,
                 runVars, lastLaunch, clickVars, fileCalls>>

\* the session of the execution terminates: onDidTerminateDebugSession of
\* every execution
SessionTerminates(i) ==
  /\ i \in 1..Len(execs)
  /\ execs[i].kind \in LaunchKinds
  /\ execs[i].live
  /\ runningLaunches' =
       setRunning(runningLaunches,
                  IdsOf(Listeners(LaunchKinds, SessionName(execs[i]))), FALSE)
  /\ execs' =
       [j \in 1..Len(execs) |->
          IF j \in Listeners(LaunchKinds, SessionName(execs[i]))
          THEN [execs[j] EXCEPT !.matched = TRUE, !.listening = FALSE,
                                !.live = @ /\ j # i]
          ELSE [execs[j] EXCEPT !.live = @ /\ j # i]]
  /\ UNCHANGED <<catVars, envVars, loadOut, nameFilter, pending, providerVars, edits,
                 runningTasks, lastLaunch, clickVars, fileCalls>>

\* vscode.debug.activeDebugSession: one of the live sessions, 0 for none
ActiveDebugSessions ==
  IF \E j \in 1..Len(execs) : execs[j].kind \in LaunchKinds /\ execs[j].live
  THEN {j \in 1..Len(execs) : execs[j].kind \in LaunchKinds /\ execs[j].live}
  ELSE {0}

\* a fallback that never clears the loading state
fallbackClearsNever(matched, activeMatches) == FALSE

\* "if (!sessionMatched)" and, for launches, no active session of that name
fallbackClears(matched, activeMatches) == ~matched /\ ~activeMatches

\* the setTimeout of 3000 ms fires
LaunchTimerFires(i, active) ==
  /\ i \in 1..Len(execs)
  /\ execs[i].kind \in LaunchKinds
  /\ execs[i].pc = "timer"
  /\ active \in ActiveDebugSessions
  /\ runningLaunches' =
       IF fallbackClears(execs[i].matched,
                         active # 0 /\ SessionName(execs[MaxOf(active, 1)]) = execs[i].item.name)
       THEN setRunning(runningLaunches, {execs[i].item.id}, FALSE)
       ELSE runningLaunches
  /\ execs' = [execs EXCEPT ![i].pc = "done"]
  /\ UNCHANGED <<catVars, envVars, loadOut, nameFilter, pending, providerVars, edits,
                 runningTasks, lastLaunch, clickVars, fileCalls>>

\* A task of tasks.json and a user task of the settings, both labelled "a"
ExecTaskItems ==
  {[id |-> <<"task", "w1", "a">>, name |-> <<"a">>, cfgName |-> <<>>]}

ExecUserTaskItems ==
  {[id |-> <<"task", "usersettings", "a">>, name |-> <<"a">>, cfgName |-> <<>>]}

\* executeTask up to its first await (tasks.json task) or to its return
\* (user task: the command is sent to a terminal and polling starts)
StartTask(kind, item) ==
  /\ Len(execs) < MaxExecs
  /\ runningTasks' = setRunning(runningTasks, {item.id}, TRUE)
  /\ execs' =
       Append(execs,
              IF kind = "userTask"
              THEN [NewExec(kind, item) EXCEPT !.pc = "polling", !.listening = TRUE,
                                               !.started = TRUE, !.live = TRUE]
              ELSE [NewExec(kind, item) EXCEPT !.pc = "fetching"])

ExecuteTask(kind, item) ==
  /\ StartTask(kind, item)
  /\ UNCHANGED <<catVars, envVars, loadOut, nameFilter, pending, providerVars, edits,
                 runningLaunches, lastLaunch, clickVars, fileCalls>>

\* fetchTasks returns no task with the label: "Task not found"
TaskNotFound(i) ==
  /\ i \in 1..Len(execs)
  /\ execs[i].kind = "task"
  /\ execs[i].pc = "fetching"
  /\ runningTasks' = setRunning(runningTasks, {execs[i].item.id}, FALSE)
  /\ execs' = [execs EXCEPT ![i].pc = "failed"]
  /\ UNCHANGED <<catVars, envVars, loadOut, nameFilter, pending, providerVars, edits,
                 runningLaunches, lastLaunch, clickVars, fileCalls>>

\* fetchTasks returns a candidate: the listeners are registered and
\* executeTask(best) is awaited
TaskFound(i) ==
  /\ i \in 1..Len(execs)
  /\ execs[i].kind = "task"
  /\ execs[i].pc = "fetching"
  /\ execs' = [execs EXCEPT ![i].pc = "executing", ![i].listening = TRUE]
  /\ UNCHANGED <<catVars, envVars, loadOut, nameFilter, pending, providerVars, edits,
                 runVars, lastLaunch, clickVars, fileCalls>>

\* the task of the execution starts: onDidStartTask of every execution
TaskStarts(i) ==
  /\ i \in 1..Len(execs)
  /\ execs[i].kind = "task"
  /\ execs[i].pc \in {"executing", "timer", "done"}
  /\ ~execs[i].started
  /\ execs' =
       [j \in 1..Len(execs) |->
          [execs[j] EXCEPT
             !.started = @ \/ j = i,
             !.live = @ \/ j = i,
             !.matched = @ \/ j \in Listeners({"task"}, execs[i].item.name)]]
  /\ UNCHANGED <<catVars, envVars, loadOut, nameFilter, pending, providerVars, edits,
                 runVars, lastLaunch, clickVars, fileCalls>>

\* executeTask(best) resolves: the fallback timer is set
ExecuteTaskResolves(i) ==
  /\ i \in 1..Len(execs)
  /\ execs[i].kind = "task"
  /\ execs[i].pc = "executing"
  /\ execs' = [execs EXCEPT ![i].pc = "timer"]
  /\ UNCHANGED <<catVars, envVars, loadOut, nameFilter, pending, providerVars, edits,
                 runVars, lastLaunch, clickVars, fileCalls>>

\* the task of the execution ends: onDidEndTask of every execution
TaskEnds(i) ==
  /\ i \in 1..Len(execs)
  /\ execs[i].kind = "task"
  /\ execs[i].live
  /\ runningTasks' =
       setRunning(runningTasks, IdsOf(Listeners({"task"}, execs[i].item.name)), FALSE)
  /\ execs' =
       [j \in 1..Len(execs) |->
          IF j \in Listeners({"task"}, execs[i].item.name)
          THEN [execs[j] EXCEPT !.matched = TRUE, !.listening = FALSE,
                                !.live = @ /\ j # i]
          ELSE [execs[j] EXCEPT !.live = @ /\ j # i]]
  /\ UNCHANGED <<catVars, envVars, loadOut, nameFilter, pending, providerVars, edits,
                 runningLaunches, lastLaunch, clickVars, fileCalls>>

\* the setTimeout of 60000 ms fires
TaskTimerFires(i) ==
  /\ i \in 1..Len(execs)
  /\ execs[i].kind = "task"
  /\ execs[i].pc = "timer"
  /\ runningTasks' =
       IF fallbackClears(execs[i].matched, FALSE)
       THEN setRunning(runningTasks, {execs[i].item.id}, FALSE)
       ELSE runningTasks
  /\ execs' = [execs EXCEPT ![i].pc = "done"]
  /\ UNCHANGED <<catVars, envVars, loadOut, nameFilter, pending, providerVars, edits,
                 runningLaunches, lastLaunch, clickVars, fileCalls>>

\* the command sent to the terminal finishes and touches the marker file
CommandFinishes(i) ==
  /\ i \in 1..Len(execs)
  /\ execs[i].kind = "userTask"
  /\ execs[i].live
  /\ execs' = [execs EXCEPT ![i].live = FALSE]
  /\ UNCHANGED <<catVars, envVars, loadOut, nameFilter, pending, providerVars, edits,
                 runVars, lastLaunch, clickVars, fileCalls>>

\* the setInterval of 500 ms fires: the marker file exists, or the polls are
\* used up
Poll(i) ==
  /\ i \in 1..Len(execs)
  /\ execs[i].kind = "userTask"
  /\ execs[i].pc = "polling"
  /\ IF ~execs[i].live \/ execs[i].polls + 1 >= MaxPolls
     THEN /\ runningTasks' = setRunning(runningTasks, {execs[i].item.id}, FALSE)
          /\ execs' = [execs EXCEPT ![i].pc = "done", ![i].polls = @ + 1]
     ELSE /\ runningTasks' = runningTasks
          /\ execs' = [execs EXCEPT ![i].polls = @ + 1]
  /\ UNCHANGED <<catVars, envVars, loadOut, nameFilter, pending, providerVars, edits,
                 runningLaunches, lastLaunch, clickVars, fileCalls>>

\* the terminal of the execution is closed: onDidCloseTerminal
TerminalCloses(i) ==
  /\ i \in 1..Len(execs)
  /\ execs[i].kind = "userTask"
  /\ execs[i].listening
  /\ runningTasks' = setRunning(runningTasks, {execs[i].item.id}, FALSE)
  /\ execs' = [execs EXCEPT ![i].pc = "done", ![i].listening = FALSE,
                            ![i].live = FALSE]
  /\ UNCHANGED <<catVars, envVars, loadOut, nameFilter, pending, providerVars, edits,
                 runningLaunches, lastLaunch, clickVars, fileCalls>>

NextCat == CallResolveTaskCategory \/ CallResolveLaunchCategory

NextLoad == CallLoad

Next ==
  \/ RefreshCommand
  \/ \E v \in FilterInputs : SearchByName(v)
  \/ ClearSearch
  \/ GetChildrenRootRefresh
  \/ \E i \in 1..MaxInFlight : RefreshComplete(i)
  \/ \E wf \in AllFolders, doc \in TreeTaskDocs : EditTasksJson(wf, doc)
  \/ \E np \in TreeUserNotebookPaths : ChangeUserNotebookPaths(np)

NextAgg == \E i \in 1..MaxInFlight : RefreshComplete(i)

SpecCat == InitCat /\ [][NextCat]_vars

SpecLoad == InitLoad /\ [][NextLoad]_vars

SpecAgg == InitAgg /\ [][NextAgg]_vars

SpecFault == InitFault /\ [][NextLoad]_vars

Spec == Init /\ [][Next]_vars

\* The extension left to itself: the configuration is edited, nobody runs a
\* command or opens the view, and the loads settle in the order in which
\* they were started
NextLive ==
  \/ \E ut \in TreeUserTasks : ChangeUserTasks(ut)
  \/ \E np \in TreeUserNotebookPaths : ChangeUserNotebookPaths(np)
  \/ RefreshComplete(1)

\* The oldest load in flight settles and the continuation of its refresh
\* runs: under NextLive the steps that take the head off pending are the
\* RefreshComplete(1) steps, and one is enabled whenever a load is in flight
LoadSettles == pending # <<>> /\ pending' = Tail(pending)

\* The event loop runs the continuation of every awaited load that settled
SpecLive == Init /\ [][NextLive]_vars /\ WF_pending(LoadSettles)

\* The extension with idle tree: launches and tasks are executed
InitExec ==
  /\ CatIdle
  /\ workspaceFolders = <<>>
  /\ files = EmptyFiles
  /\ config = EmptyConfig
  /\ loadOut = [called |-> FALSE, result |-> NoLoad]
  /\ nameFilter = <<>>
  /\ pending = <<>>
  /\ ProviderConstructed
  /\ edits = 0
  /\ ExtensionActivated

\* what the commands and the user do
NextExecStart ==
  \/ \E kind \in LaunchKinds, item \in ExecLaunchItems : LaunchCommand(kind, item)
  \/ RerunLastLaunch
  \/ RedebugLastLaunch
  \/ \E item \in ExecTaskItems : ExecuteTask("task", item)
  \/ \E item \in ExecUserTaskItems : ExecuteTask("userTask", item)
  \/ \E i \in 1..MaxExecs : TerminalCloses(i)

\* what every execution does by itself once started: promises resolve,
\* timers fire, and sessions, tasks and commands that started end
ExecProgress(i) ==
  \/ StartDebuggingFails(i)
  \/ SessionStarts(i)
  \/ StartDebuggingSucceeds(i)
  \/ SessionTerminates(i)
  \/ \E active \in 0..MaxExecs : LaunchTimerFires(i, active)
  \/ TaskNotFound(i)
  \/ TaskFound(i)
  \/ TaskStarts(i)
  \/ ExecuteTaskResolves(i)
  \/ TaskEnds(i)
  \/ TaskTimerFires(i)
  \/ CommandFinishes(i)
  \/ Poll(i)

NextExec == NextExecStart \/ \E i \in 1..MaxExecs : ExecProgress(i)

SpecExec == InitExec /\ [][NextExec]_vars

\* ------------------------------------------------------------------------
\* extension.ts: treeView.onDidChangeSelection
\* Time is Date.now() in milliseconds; the user selects every 100 ms at most.
\* ------------------------------------------------------------------------
MaxNow == 600

DOUBLE_CLICK_DELAY == 300

LeafKinds == {"launch", "launchTop", "task", "taskTop"}

\* Nodes the user can select: a launch leaf, a tasks.json task leaf, a user
\* task leaf and a category node (which has no item)
ClickNodes ==
  {[kind |-> "launch", item |-> x] : x \in {y \in ExecLaunchItems : y.cfgName = y.name}}
    \cup {[kind |-> "taskTop", item |-> x] : x \in ExecTaskItems \cup ExecUserTaskItems}
    \cup {[kind |-> "launchCategory", item |-> NoLaunch]}

\* What identifies the node of a selection event
NodeKey(node) == IF node.kind \in LeafKinds THEN node.item.id ELSE <<node.kind>>

IsDoubleClick(node) ==
  /\ lastSelection.set
  /\ lastSelection.nodeId = node.item.id
  /\ now - lastSelection.timestamp < DOUBLE_CLICK_DELAY

\* onDidChangeSelection with an empty selection
SelectNothing ==
  /\ lastSelection' = NoSelection
  /\ clickTimeout' = FALSE
  /\ prevSelection' = [nodeId |-> <<>>, timestamp |-> now, set |-> TRUE]
  /\ UNCHANGED <<catVars, envVars, loadOut, nameFilter, pending, providerVars, edits,
                 runVars, lastLaunch, execs, now, fileCalls>>

\* onDidChangeSelection with a node selected
Select(node) ==
  /\ prevSelection' = [nodeId |-> NodeKey(node), timestamp |-> now, set |-> TRUE]
  /\ IF node.kind \notin LeafKinds \/ node.item.id = <<>>
     THEN UNCHANGED <<lastSelection, clickTimeout, runVars, lastLaunch, execs>>
     ELSE IF IsDoubleClick(node)
     THEN /\ lastSelection' = NoSelection
          /\ clickTimeout' = FALSE
          /\ IF node.kind \in {"launch", "launchTop"}
             THEN StartLaunch("run", node.item) /\ UNCHANGED runningTasks
             ELSE /\ StartTask(IF node.item \in ExecUserTaskItems
                               THEN "userTask" ELSE "task", node.item)
                  /\ UNCHANGED <<runningLaunches, lastLaunch>>
     ELSE /\ lastSelection' = [nodeId |-> node.item.id, timestamp |-> now, set |-> TRUE]
          /\ clickTimeout' = TRUE
          /\ UNCHANGED <<runVars, lastLaunch, execs>>
  /\ UNCHANGED <<catVars, envVars, loadOut, nameFilter, pending, providerVars, edits,
                 now, fileCalls>>

\* the callback of setTimeout(..., DOUBLE_CLICK_DELAY)
ClickTimeoutFires ==
  /\ clickTimeout
  /\ now - lastSelection.timestamp >= DOUBLE_CLICK_DELAY
  /\ lastSelection' = NoSelection
  /\ clickTimeout' = FALSE
  /\ UNCHANGED <<catVars, envVars, loadOut, nameFilter, pending, providerVars, edits,
                 runVars, lastLaunch, execs, now, prevSelection, fileCalls>>

\* 100 ms pass
Tick ==
  /\ now < MaxNow
  /\ now' = now + 100
  /\ UNCHANGED <<catVars, envVars, loadOut, nameFilter, pending, providerVars, edits,
                 runVars, lastLaunch, execs, lastSelection, clickTimeout,
                 prevSelection, fileCalls>>

NextClick ==
  \/ \E node \in ClickNodes : Select(node)
  \/ SelectNothing
  \/ ClickTimeoutFires
  \/ Tick

SpecClick == InitExec /\ [][NextClick]_vars

\* ------------------------------------------------------------------------
\* extension.ts: betterRun.runFileAsLaunch / betterRun.debugFileAsLaunch
\* One Python file /f; an invocation is a record with its position (pc),
\* the launch its first load found, and the list it is about to write.
\* ------------------------------------------------------------------------
FileName == <<"f">>

FsPath == <<"/">> \o FileName

\* createLaunchConfigForFile for a Python file: "Python: <fileName>"
createLaunchConfigForFile(fsPath, fileName) ==
  [name |-> <<"P", ":", " ">> \o fileName, category |-> <<>>, program |-> fsPath]

\* A user launch of another program, in the settings before any invocation
OtherLaunch == [name |-> <<"a">>, category |-> <<>>, program |-> <<"/", "o">>]

\* launches.find(..): the first launch that satisfies the test, if any
find(launches, Test(_)) ==
  LET hits == SelectSeq(launches, Test)
  IN IF hits = <<>> THEN <<>> ELSE <<hits[1]>>

\* the test of the first find: same program, or a name that includes the
\* file name
IsLaunchOfFile(l) == l.config.program = FsPath \/ includes(l.name, FileName)

\* the test of the second find: the program and the name of the new
\* configuration
IsNewLaunch(l) ==
  /\ l.config.program = createLaunchConfigForFile(FsPath, FileName).program
  /\ l.name = createLaunchConfigForFile(FsPath, FileName).name

AsExecItem(l) == [id |-> l.id, name |-> l.name, cfgName |-> l.config.name]

\* The command is invoked: findOrCreateLaunchForFile up to its first await,
\* where the load has read the configuration
FileCommand(kind) ==
  /\ Len(fileCalls) < MaxExecs
  /\ fileCalls' =
       Append(fileCalls,
              [kind |-> kind, pc |-> "loading",
               found |-> find(loadLaunchesAndTasks(CurrentEnv).launches, IsLaunchOfFile),
               updated |-> <<>>])
  /\ UNCHANGED <<catVars, envVars, loadOut, nameFilter, pending, providerVars, edits,
                 runVars, lastLaunch, execs, clickVars>>

\* The first load returned a launch of the file: it is executed
FileLaunchExists(i) ==
  /\ i \in 1..Len(fileCalls)
  /\ fileCalls[i].pc = "loading"
  /\ fileCalls[i].found # <<>>
  /\ fileCalls' = [fileCalls EXCEPT ![i].pc = "executed"]
  /\ StartLaunch(fileCalls[i].kind, AsExecItem(fileCalls[i].found[1]))
  /\ UNCHANGED <<catVars, envVars, loadOut, nameFilter, pending, providerVars, edits,
                 runningTasks, clickVars>>

\* The first load returned none: the configuration is created, userLaunches
\* is read and config.update is called with the list and the new entry
FileLaunchMissing(i) ==
  /\ i \in 1..Len(fileCalls)
  /\ fileCalls[i].pc = "loading"
  /\ fileCalls[i].found = <<>>
  /\ fileCalls' =
       [fileCalls EXCEPT
          ![i].pc = "updating",
          ![i].updated =
            Append(config.userLaunches, createLaunchConfigForFile(FsPath, FileName))]
  /\ UNCHANGED <<catVars, envVars, loadOut, nameFilter, pending, providerVars, edits,
                 runVars, lastLaunch, execs, clickVars>>

\* config.update resolves: the setting holds the list written, and
\* provider.refresh() is called and awaits its load
FileUpdateResolves(i) ==
  /\ i \in 1..Len(fileCalls)
  /\ fileCalls[i].pc = "updating"
  /\ config' = [config EXCEPT !.userLaunches = fileCalls[i].updated]
  /\ BeginRefresh(EnvOf(workspaceFolders, files, config'))
  /\ fileCalls' = [fileCalls EXCEPT ![i].pc = "refreshing"]
  /\ UNCHANGED <<catVars, workspaceFolders, files, loadOut, nameFilter, providerVars,
                 edits, runVars, lastLaunch, execs, clickVars>>

\* The refresh completed and 200 ms passed: the launches are loaded again and
\* the new launch is looked for; it is executed if found, and otherwise
\* "Failed to create or find launch configuration." is shown
FileSecondLoad(i) ==
  /\ i \in 1..Len(fileCalls)
  /\ fileCalls[i].pc = "refreshing"
  /\ pending = <<>>
  /\ LET newLaunchItem == find(loadLaunchesAndTasks(CurrentEnv).launches, IsNewLaunch)
     IN IF newLaunchItem = <<>>
        THEN /\ fileCalls' = [fileCalls EXCEPT ![i].pc = "failed"]
             /\ UNCHANGED <<runningLaunches, lastLaunch, execs>>
        ELSE /\ fileCalls' = [fileCalls EXCEPT ![i].pc = "executed"]
             /\ StartLaunch(fileCalls[i].kind, AsExecItem(newLaunchItem[1]))
  /\ UNCHANGED <<catVars, envVars, loadOut, nameFilter, pending, providerVars, edits,
                 runningTasks, clickVars>>

\* No workspace folder; the user settings file may be at one of the paths of
\* getUserSettingsUris or at none; userLaunches is empty or holds a launch of
\* another program
InitFile ==
  /\ CatIdle
  /\ workspaceFolders = <<>>
  /\ \E us \in BOOLEAN : files = [EmptyFiles EXCEPT !.userSettings = us]
  /\ \E ul \in {<<>>, <<OtherLaunch>>} : config = [EmptyConfig EXCEPT !.userLaunches = ul]
  /\ loadOut = [called |-> FALSE, result |-> NoLoad]
  /\ nameFilter = <<>>
  /\ pending = <<>>
  /\ ProviderConstructed
  /\ edits = 0
  /\ ExtensionActivated

NextFile ==
  \/ \E kind \in LaunchKinds : FileCommand(kind)
  \/ \E i \in 1..MaxExecs : FileLaunchExists(i)
  \/ \E i \in 1..MaxExecs : FileLaunchMissing(i)
  \/ \E i \in 1..MaxExecs : FileUpdateResolves(i)
  \/ \E i \in 1..MaxExecs : FileSecondLoad(i)
  \/ \E i \in 1..MaxInFlight : RefreshComplete(i)

SpecFile == InitFile /\ [][NextFile]_vars

\* ------------------------------------------------------------------------
\* The provider as the extension and the host use it after activation: the
\* startup refresh is awaited, the run state is set and cleared, the filter
\* is set and the host queries the root
\* ------------------------------------------------------------------------
\* provider.setLaunchRunning(launchId, running)
SetLaunchRunning(launchId, running) ==
  /\ runningLaunches' = setRunning(runningLaunches, {launchId}, running)
  /\ UNCHANGED <<catVars, envVars, loadOut, nameFilter, pending, providerVars, edits,
                 runningTasks, lastLaunch, execs, clickVars, fileCalls>>

\* provider.setTaskRunning(taskId, running)
SetTaskRunning(taskId, running) ==
  /\ runningTasks' = setRunning(runningTasks, {taskId}, running)
  /\ UNCHANGED <<catVars, envVars, loadOut, nameFilter, pending, providerVars, edits,
                 runningLaunches, lastLaunch, execs, clickVars, fileCalls>>

\* vscode.workspace.workspaceFolders changes; nothing in the extension
\* listens to that
ChangeWorkspaceFolders(folders) ==
  /\ edits < MaxEdits
  /\ workspaceFolders # folders
  /\ workspaceFolders' = folders
  /\ edits' = edits + 1
  /\ UNCHANGED <<catVars, files, config, loadOut, nameFilter, pending, providerVars,
                 extVars>>

LaunchIds == {x.id : x \in ExecLaunchItems}

TaskIds == {x.id : x \in ExecTaskItems}

NextHost ==
  \/ \E id \in LaunchIds, running \in BOOLEAN : SetLaunchRunning(id, running)
  \/ \E id \in TaskIds, running \in BOOLEAN : SetTaskRunning(id, running)
  \/ \E v \in FilterInputs : SearchByName(v)
  \/ GetChildrenRootRefresh
  \/ \E i \in 1..MaxInFlight : RefreshComplete(i)

SpecHost == Init /\ [][NextHost]_vars

\* The host alone: it queries the root, and the loads settle
NextQuery ==
  \/ \E id \in LaunchIds, running \in BOOLEAN : SetLaunchRunning(id, running)
  \/ GetChildrenRootRefresh
  \/ \E i \in 1..MaxInFlight : RefreshComplete(i)

SpecQuery == Init /\ [][NextQuery]_vars

\* Workspace folders are added and removed while the tree is refreshed
NextFolders ==
  \/ \E folders \in {<<>>, <<"w1">>} : ChangeWorkspaceFolders(folders)
  \/ RefreshCommand
  \/ \E i \in 1..MaxInFlight : RefreshComplete(i)

SpecFolders == Init /\ [][NextFolders]_vars

\* Each function executes one item: executeRunLaunch the launch named as it
\* is listed, executeDebugLaunch the launch listed as " a", executeTask the
\* task of tasks.json and the user task
NextExecLive ==
  \/ \E item \in ExecLaunchItems :
       ExecuteLaunch(IF item.cfgName = item.name THEN "run" ELSE "debug", item)
  \/ \E item \in ExecTaskItems : ExecuteTask("task", item)
  \/ \E item \in ExecUserTaskItems : ExecuteTask("userTask", item)
  \/ \E i \in 1..MaxExecs : TerminalCloses(i)
  \/ \E i \in 1..MaxExecs : ExecProgress(i)

\* Promises resolve, timers fire, and every session, task and command that
\* started ends: as long as an execution can take a step, one is taken
SpecExecLive ==
  /\ InitExec
  /\ [][NextExecLive]_vars
  /\ WF_vars(\E i \in 1..MaxExecs : ExecProgress(i))

\* ------------------------------------------------------------------------
\* Filter queries and getChildren (the tree provider's reads)
\* ------------------------------------------------------------------------
getFilterLower == toLowerCase(trim(nameFilter))

\* name.toLowerCase().includes(filterLower)
matches(name, filterLower) == includes(toLowerCase(name), filterLower)

\* the items of every source of every category of one workspace
CategorizedItems(byWkCatSrc, workspaceKey) ==
  LET catMap == MapGet(byWkCatSrc, workspaceKey, EmptyMap)
  IN UNION {UNION {Range(catMap[c][j].items) : j \in 1..Len(catMap[c])} :
              c \in DOMAIN catMap}

workspaceHasLaunchMatches(workspaceKey, filterLower) ==
  IF filterLower = <<>> THEN TRUE
  ELSE \/ \E x \in Range(MapGet(topLevelLaunchesByWorkspace, workspaceKey, <<>>)) :
            matches(x.name, filterLower)
       \/ \E x \in CategorizedItems(launchesByWorkspaceCategorySource, workspaceKey) :
            matches(x.name, filterLower)

workspaceHasTaskMatches(workspaceKey, filterLower) ==
  IF filterLower = <<>> THEN TRUE
  ELSE \E x \in CategorizedItems(tasksByWorkspaceCategorySource, workspaceKey) :
         matches(x.name, filterLower)

workspaceHasMatches(workspaceKey, filterLower) ==
  IF filterLower = <<>> THEN TRUE
  ELSE \/ workspaceHasLaunchMatches(workspaceKey, filterLower)
       \/ \E x \in CategorizedItems(tasksByWorkspaceCategorySource, workspaceKey) :
            matches(x.name, filterLower)
       \/ \E x \in Range(MapGet(notebooksByWorkspace, workspaceKey, <<>>)) :
            matches(x.name, filterLower)

NoItem ==
  [kind |-> "none", id |-> <<>>, name |-> <<>>, category |-> Undefined,
   config |-> NoEntry, workspaceFolder |-> NoFolder, source |-> NoSource,
   isLocal |-> FALSE]

SectionNode(workspaceKey, section) ==
  [kind |-> "section", workspaceKey |-> workspaceKey, section |-> section,
   category |-> <<>>, item |-> NoItem]

CategoryNode(kind, workspaceKey, category) ==
  [kind |-> kind, workspaceKey |-> workspaceKey, section |-> "",
   category |-> category, item |-> NoItem]

LeafNode(kind, x) ==
  [kind |-> kind, workspaceKey |-> <<>>, section |-> "", category |-> <<>>,
   item |-> x]

Filtered(items, filterLower) ==
  IF filterLower = <<>> THEN items
  ELSE SelectSeq(items, LAMBDA x : matches(x.name, filterLower))

\* getChildren(undefined), once this.workspaces is not empty
getChildrenRoot(filterLower) ==
  IF filterLower = <<>> THEN workspaces
  ELSE SelectSeq(workspaces, LAMBDA ws : workspaceHasMatches(ws.key, filterLower))

\* getChildren(workspace node)
getChildrenWorkspace(key, filterLower) ==
  LET workspaceNotebooks == MapGet(notebooksByWorkspace, key, <<>>)
  IN IF filterLower # <<>> /\ ~workspaceHasMatches(key, filterLower) THEN <<>>
     ELSE IF filterLower = <<>>
          THEN <<SectionNode(key, "Launches"), SectionNode(key, "Tasks")>>
                 \o (IF Len(workspaceNotebooks) > 0
                     THEN <<SectionNode(key, "Notebooks")>> ELSE <<>>)
     ELSE (IF workspaceHasLaunchMatches(key, filterLower)
           THEN <<SectionNode(key, "Launches")>> ELSE <<>>)
          \o (IF workspaceHasTaskMatches(key, filterLower)
              THEN <<SectionNode(key, "Tasks")>> ELSE <<>>)
          \o (IF \E n \in Range(workspaceNotebooks) : matches(n.name, filterLower)
              THEN <<SectionNode(key, "Notebooks")>> ELSE <<>>)

\* the category nodes of a section, all of them whatever the filter
categoryNodesUnfiltered(kind, cats, catMap, workspaceKey, filterLower) ==
  [i \in 1..Len(cats) |-> CategoryNode(kind, workspaceKey, cats[i])]

\* the category nodes of a section: with a filter, those with a matching item
categoryNodes(kind, cats, catMap, workspaceKey, filterLower) ==
  LET shown ==
        IF filterLower = <<>> THEN cats
        ELSE SelectSeq(cats, LAMBDA c :
               \E j \in 1..Len(MapGet(catMap, c, <<>>)) :
                 \E x \in Range(MapGet(catMap, c, <<>>)[j].items) :
                   matches(x.name, filterLower))
  IN [i \in 1..Len(shown) |-> CategoryNode(kind, workspaceKey, shown[i])]

\* getChildren(section node)
getChildrenSection(workspaceKey, section, filterLower) ==
  CASE section = "Launches" ->
         LET top == MapGet(topLevelLaunchesByWorkspace, workspaceKey, <<>>)
             topItems == sort(Filtered(top, filterLower), "name")
         IN [i \in 1..Len(topItems) |-> LeafNode("launchTop", topItems[i])]
              \o categoryNodes("launchCategory",
                   MapGet(launchCategoriesByWorkspace, workspaceKey, <<>>),
                   MapGet(launchesByWorkspaceCategorySource, workspaceKey, EmptyMap),
                   workspaceKey, filterLower)
    [] section = "Tasks" ->
         LET top == MapGet(topLevelTasksByWorkspace, workspaceKey, <<>>)
             topItems == sort(Filtered(top, filterLower), "name")
         IN [i \in 1..Len(topItems) |-> LeafNode("taskTop", topItems[i])]
              \o categoryNodes("taskCategory",
                   MapGet(taskCategoriesByWorkspace, workspaceKey, <<>>),
                   MapGet(tasksByWorkspaceCategorySource, workspaceKey, EmptyMap),
                   workspaceKey, filterLower)
    [] section = "Notebooks" ->
         LET filtered ==
               sort(Filtered(MapGet(notebooksByWorkspace, workspaceKey, <<>>),
                             filterLower), "name")
         IN [i \in 1..Len(filtered) |-> LeafNode("notebook", filtered[i])]
    [] OTHER -> <<>>

\* getChildren(launchCategory node), getChildren(taskCategory node)
getChildrenCategory(kind, workspaceKey, category, filterLower) ==
  LET byWkCatSrc ==
        IF kind = "launchCategory" THEN launchesByWorkspaceCategorySource
        ELSE tasksByWorkspaceCategorySource
      srcMap == MapGet(MapGet(byWkCatSrc, workspaceKey, EmptyMap), category, <<>>)
      all == Flatten([j \in 1..Len(srcMap) |-> srcMap[j].items])
      shown == sort(Filtered(all, filterLower), "name")
  IN [i \in 1..Len(shown) |->
        LeafNode(IF kind = "launchCategory" THEN "launch" ELSE "task", shown[i])]

IsCategoryNode(n) == n.kind \in {"launchCategory", "taskCategory"}

IsLeafNode(n) == n.kind \in {"launchTop", "launch", "taskTop", "task", "notebook"}

\* The leaves below a node returned by getChildren(section node)
LeavesUnder(n, filterLower) ==
  IF IsCategoryNode(n)
  THEN getChildrenCategory(n.kind, n.workspaceKey, n.category, filterLower)
  ELSE <<n>>

\* The leaves below a section node
SectionLeaves(workspaceKey, section, filterLower) ==
  LET ch == getChildrenSection(workspaceKey, section, filterLower)
  IN Flatten([i \in 1..Len(ch) |-> LeavesUnder(ch[i], filterLower)])

\* The leaves below a workspace node
WorkspaceLeaves(key, filterLower) ==
  LET ch == getChildrenWorkspace(key, filterLower)
  IN Flatten([i \in 1..Len(ch) |-> SectionLeaves(key, ch[i].section, filterLower)])

\* Every leaf reached by expanding the tree from the root
TreeLeaves(filterLower) ==
  LET ch == getChildrenRoot(filterLower)
  IN Flatten([i \in 1..Len(ch) |-> WorkspaceLeaves(ch[i].key, filterLower)])

\* ------------------------------------------------------------------------
\* Categorizer properties
\* ------------------------------------------------------------------------
catApplied == catOut.fn # "none"

ExactEntry == byLabelGet(catByLabel, catLabel)

HasExact == ExactEntry.defined /\ trim(ExactEntry.val) # <<>>

NoExact == catLabel \notin DOMAIN catByLabel

RuleMatches(r) == RegExpValid(r.pattern) /\ RegExpTest(r.pattern, catLabel)

MatchingRules == {i \in 1..Len(catRules) : RuleMatches(catRules[i])}

FirstMatching == CHOOSE i \in MatchingRules : \A j \in MatchingRules : i <= j

RuleIsValid(r) == RegExpValid(r.pattern)

RuleIsNotBlank(r) == trim(r.category) # <<>>

ResolveAgain(rules) ==
  IF catOut.fn = "launch"
  THEN resolveLaunchCategory(catLabel, rules, catByLabel)
  ELSE resolveTaskCategory(catLabel, rules, catByLabel)

\* C5: when the exact label->category map has an entry for the label that is
\* non-empty after trimming, the resolved category is that trimmed entry,
\* whatever the rules match and whatever prefix the label has.
C5_ExactEntryWins ==
  (catApplied /\ HasExact) => catOut.result = Some(trim(ExactEntry.val))

\* C5 witness: the exact entry decided although a rule with another category
\* matches and the label has a "prefix:" form.
C5_Witness ==
  /\ catOut.fn = "task"
  /\ HasExact
  /\ \E i \in MatchingRules : trim(catRules[i].category) # trim(ExactEntry.val)
  /\ prefixMatch(catLabel).defined
  /\ catOut.result = Some(trim(ExactEntry.val))

\* C6: with no exact entry for the label, the resolved category is the
\* category of the first rule, in list order, whose pattern matches; neither a
\* later matching rule nor the prefix fallback overrides it.
C6_FirstMatchingRuleWins ==
  (catApplied /\ NoExact /\ MatchingRules # {})
    => catOut.result = Some(catRules[FirstMatching].category)

\* C6 witness: two rules with different categories both match a label that
\* also has a prefix, and the earlier rule decided.
C6_Witness ==
  /\ catOut.fn = "task"
  /\ NoExact
  /\ \E i, j \in MatchingRules :
        i < j /\ catRules[i].category # catRules[j].category
  /\ prefixMatch(catLabel).defined
  /\ catOut.result = Some(catRules[FirstMatching].category)

\* C7: every precedence step is passed over when the value it yields is empty
\* or whitespace-only: the result equals the result without the rules whose
\* category is blank, and a defined result is never blank.
C7_BlankStepPassedOver ==
  catApplied =>
    /\ catOut.result = ResolveAgain(SelectSeq(catRules, RuleIsNotBlank))
    /\ catOut.result.defined => trim(catOut.result.val) # <<>>

\* C8: with no exact entry and no matching rule, the result is the trimmed
\* prefix exactly when the label starts with a non-blank prefix followed by a
\* colon and a space; otherwise it is undefined.
C8_PrefixNeedsColonSpace ==
  (catApplied /\ NoExact /\ MatchingRules = {}) =>
    LET k == FirstColon(catLabel)
        colonSpace ==
          /\ k > 1
          /\ trim(SubSeq(catLabel, 1, k - 1)) # <<>>
          /\ k < Len(catLabel)
          /\ catLabel[k + 1] = " "
    IN catOut.result =
         IF colonSpace THEN Some(trim(SubSeq(catLabel, 1, k - 1))) ELSE Undefined

\* C9: a rule whose pattern is not a valid regular expression never raises
\* and never matches: the result equals the result with the invalid rules
\* removed from the list. loadLaunchesAndTasks raises only when one of its
\* categorizer calls does, so a load over such rules completes.
C9_InvalidRulesIgnored ==
  catApplied =>
    /\ ~catOut.result.raised
    /\ catOut.result = ResolveAgain(SelectSeq(catRules, RuleIsValid))

\* C9 witness: an invalid rule stands before a valid matching rule, and the
\* valid rule decided.
C9_Witness ==
  /\ catOut.fn = "task"
  /\ NoExact
  /\ \E i \in 1..Len(catRules) :
        /\ ~RegExpValid(catRules[i].pattern)
        /\ MatchingRules # {}
        /\ i < FirstMatching
  /\ catOut.result = Some(catRules[FirstMatching].category)

\* ------------------------------------------------------------------------
\* Aggregation and tree properties
\* ------------------------------------------------------------------------
Count(x, s) == Cardinality({i \in 1..Len(s) : s[i] = x})

KnownKeys == {USER_WORKSPACE_KEY} \cup {<<"ws", wf>> : wf \in AllFolders}

ExpectedKey(x) ==
  IF x.workspaceFolder = NoFolder THEN <<"ws", "user">> ELSE <<"ws", x.workspaceFolder>>

IsBlank(c) == ~c.defined \/ trim(c.val) = <<>>

TopMap(kind) ==
  IF kind = "launch" THEN topLevelLaunchesByWorkspace ELSE topLevelTasksByWorkspace

CatMap(kind) ==
  IF kind = "launch" THEN launchesByWorkspaceCategorySource
  ELSE tasksByWorkspaceCategorySource

\* The buckets of the derived state that hold items of one kind
Buckets(kind) ==
  {[wk |-> wk, top |-> TRUE, category |-> <<>>, slot |-> 0] : wk \in DOMAIN TopMap(kind)}
    \cup
  UNION {UNION {{[wk |-> wk, top |-> FALSE, category |-> c, slot |-> j] :
                    j \in 1..Len(CatMap(kind)[wk][c])} :
                  c \in DOMAIN CatMap(kind)[wk]} :
           wk \in DOMAIN CatMap(kind)}

Contents(kind, b) ==
  IF b.top THEN TopMap(kind)[b.wk]
  ELSE CatMap(kind)[b.wk][b.category][b.slot].items

BucketSourceId(kind, b) ==
  IF b.top THEN <<>> ELSE CatMap(kind)[b.wk][b.category][b.slot].sourceId

LoadedOf(kind) ==
  IF kind = "launch" THEN lastLoad.result.launches ELSE lastLoad.result.tasks

\* C1: after a refresh every loaded launch and task is stored in exactly one
\* bucket (its workspace key, then the top-level list or one (category,
\* source id) list), as often as the load returned it, and the buckets hold
\* nothing else.
C1_AggregationIsPartition ==
  lastLoad.done =>
    \A kind \in {"launch", "task"} :
      /\ \A x \in Range(LoadedOf(kind)) :
           LET holding == {b \in Buckets(kind) : x \in Range(Contents(kind, b))}
           IN /\ Cardinality(holding) = 1
              /\ \A b \in holding :
                   /\ b.wk = ExpectedKey(x)
                   /\ b.top <=> IsBlank(x.category)
                   /\ ~b.top => /\ b.category = trim(x.category.val)
                                /\ BucketSourceId(kind, b) = x.source.id
                   /\ Count(x, Contents(kind, b)) = Count(x, LoadedOf(kind))
      /\ \A b \in Buckets(kind) :
           Range(Contents(kind, b)) \subseteq Range(LoadedOf(kind))

\* C1 witness: a refresh has filled top-level and categorized buckets in two
\* workspaces, one of them with two items.
C1_Witness ==
  /\ lastLoad.done
  /\ \E b \in Buckets("launch") : ~b.top /\ Len(Contents("launch", b)) >= 2
  /\ \E b \in Buckets("launch") : b.top /\ Len(Contents("launch", b)) >= 1
  /\ \E b \in Buckets("task") : b.top /\ b.wk # USER_WORKSPACE_KEY
  /\ \E b \in Buckets("task") : ~b.top /\ b.wk = USER_WORKSPACE_KEY

\* Every launch, task and notebook aggregated under a workspace key
AggregatedUnder(wk) ==
  Range(MapGet(topLevelLaunchesByWorkspace, wk, <<>>))
    \cup CategorizedItems(launchesByWorkspaceCategorySource, wk)
    \cup Range(MapGet(topLevelTasksByWorkspace, wk, <<>>))
    \cup CategorizedItems(tasksByWorkspaceCategorySource, wk)
    \cup Range(MapGet(notebooksByWorkspace, wk, <<>>))

\* C2: workspaceHasMatches(key, filter) is true exactly when the filter is
\* empty or some launch name, task label (top-level or categorized) or
\* notebook name aggregated under the key contains the filter.
C2_WorkspaceHasMatchesIffSomeItemMatches ==
  \A wk \in KnownKeys, f \in FilterLowers :
    workspaceHasMatches(wk, f)
      <=> (f = <<>> \/ \E x \in AggregatedUnder(wk) : matches(x.name, f))

LoadedItems ==
  lastLoad.result.launches \o lastLoad.result.tasks \o lastLoad.result.notebooks

LeafItems(f) == LET leaves == TreeLeaves(f) IN [i \in 1..Len(leaves) |-> leaves[i].item]

\* C3: for every filter, every loaded launch, task and notebook whose name
\* contains the filter is a leaf of the tree expanded from the root, once for
\* each time the load returned it.
C3_EveryMatchingItemIsShown ==
  lastLoad.done =>
    \A f \in FilterLowers :
      \A x \in Range(LoadedItems) :
        matches(x.name, f) => Count(x, LeafItems(f)) = Count(x, LoadedItems)

\* C4: under a non-empty filter every workspace, section and category node
\* that getChildren returns has a leaf below it, and every leaf returned
\* contains the filter.
C4_ShownNodesHaveMatchingLeaves ==
  \A f \in (FilterLowers \cup {getFilterLower}) \ {<<>>} :
    /\ \A ws \in Range(getChildrenRoot(f)) :
         /\ WorkspaceLeaves(ws.key, f) # <<>>
         /\ \A s \in Range(getChildrenWorkspace(ws.key, f)) :
              /\ SectionLeaves(ws.key, s.section, f) # <<>>
              /\ \A n \in Range(getChildrenSection(ws.key, s.section, f)) :
                   LeavesUnder(n, f) # <<>>
    /\ \A leaf \in Range(TreeLeaves(f)) : matches(leaf.item.name, f)

\* C4 witness: a filter is set, the tree shows a category node with a leaf,
\* and the filter has pruned other items of the last load.
C4_Witness ==
  /\ getFilterLower # <<>>
  /\ lastLoad.done
  /\ \E ws \in Range(getChildrenRoot(getFilterLower)) :
       \E s \in Range(getChildrenWorkspace(ws.key, getFilterLower)) :
         \E n \in Range(getChildrenSection(ws.key, s.section, getFilterLower)) :
           IsCategoryNode(n)
  /\ Len(TreeLeaves(getFilterLower)) < Len(LoadedItems)
  /\ Len(getChildrenRoot(getFilterLower)) < Len(workspaces)

\* ------------------------------------------------------------------------
\* Loader properties
\* ------------------------------------------------------------------------
\* C10: the category of every launch and task item returned by a load is
\* undefined or a non-empty string without leading or trailing white space.
C10_LoadedCategoryIsTrimmed ==
  loadOut.called =>
    \A x \in Range(loadOut.result.launches \o loadOut.result.tasks) :
      \/ ~x.category.defined
      \/ x.category.val # <<>> /\ trim(x.category.val) = x.category.val

\* ------------------------------------------------------------------------
\* Blank categories in refresh
\* ------------------------------------------------------------------------
HasBlankCategory(x) == x.category.defined /\ trim(x.category.val) = <<>>

\* The items with every blank category replaced by undefined
WithoutBlank(items) ==
  [i \in 1..Len(items) |->
     IF HasBlankCategory(items[i]) THEN [items[i] EXCEPT !.category = Undefined]
     ELSE items[i]]

CategoriesOf(kind) ==
  IF kind = "launch" THEN launchCategoriesByWorkspace ELSE taskCategoriesByWorkspace

SourcesByCategoryOf(kind) ==
  IF kind = "launch" THEN launchSourcesByWorkspaceCategory
  ELSE taskSourcesByWorkspaceCategory

\* C11: an item whose category is the empty string or white space only is
\* aggregated like an item without category: it is in the top-level list of
\* its workspace and in no (category, source) list, and the category names
\* and the sources per category are those of the same load with the blank
\* categories replaced by undefined.
C11_BlankCategoryIsTopLevel ==
  lastLoad.done =>
    \A kind \in {"launch", "task"} :
      /\ \A x \in Range(LoadedOf(kind)) :
           HasBlankCategory(x) =>
             /\ x \in Range(MapGet(TopMap(kind), ExpectedKey(x), <<>>))
             /\ \A b \in Buckets(kind) : ~b.top => x \notin Range(Contents(kind, b))
      /\ CategoriesOf(kind) = buildCategoriesByWorkspace(WithoutBlank(LoadedOf(kind)))
      /\ SourcesByCategoryOf(kind) =
           buildSourcesByWorkspaceCategory(WithoutBlank(LoadedOf(kind)))
      /\ \A wk \in DOMAIN CatMap(kind) : \A c \in DOMAIN CatMap(kind)[wk] : trim(c) # <<>>

\* C11 witness: a refresh aggregated a launch with category "" or " "
\* beside a categorized one, and a task with a blank category.
C11_Witness ==
  /\ lastLoad.done
  /\ \E x \in Range(lastLoad.result.launches) : HasBlankCategory(x)
  /\ \E x \in Range(lastLoad.result.launches) : ~IsBlank(x.category)
  /\ \E x \in Range(lastLoad.result.tasks) : x.category = Some(<<" ">>)

\* ------------------------------------------------------------------------
\* Loader properties: user tasks
\* ------------------------------------------------------------------------
LoadedTasks == loadOut.result.tasks

LoadedLaunches == loadOut.result.launches

IsUserItem(x) == x.source.isUserSettings

AutoTaskCategory(x) ==
  resolveTaskCategory(x.name, config.taskCategoryRules, config.taskCategoryByLabel)

\* C12: a task of betterRun.userTasks whose category field is non-empty after
\* trimming is loaded with that trimmed field as its category, whatever the
\* exact map, the rules and the label prefix give; the automatic category is
\* used only when the field is empty or blank.
C12_UserTaskExplicitCategory ==
  loadOut.called =>
    /\ \A x \in Range(LoadedTasks) :
         IsUserItem(x) =>
           x.category = IF trim(x.config.category) # <<>>
                        THEN Some(trim(x.config.category))
                        ELSE AutoTaskCategory(x)
    /\ (files.userSettings /\ config.userTasks # <<>>) =>
         \A i \in 1..Len(config.userTasks) :
           LET e == config.userTasks[i]
           IN (trim(e.name) # <<>> /\ trim(e.category) # <<>>) =>
                \E x \in Range(LoadedTasks) :
                  /\ IsUserItem(x)
                  /\ x.config = e
                  /\ x.category = Some(trim(e.category))

\* C12 witness: a loaded user task carries its trimmed category field although
\* the automatic categorization of its label gives another category, and
\* another user task without the field is categorized automatically.
C12_Witness ==
  /\ loadOut.called
  /\ \E x \in Range(LoadedTasks) :
       /\ IsUserItem(x)
       /\ x.config.category = <<" ", "C">>
       /\ x.category = Some(<<"C">>)
       /\ AutoTaskCategory(x).defined
       /\ AutoTaskCategory(x) # x.category
  /\ \E x \in Range(LoadedTasks) :
       IsUserItem(x) /\ trim(x.config.category) = <<>> /\ x.category.defined

\* ------------------------------------------------------------------------
\* Ordering
\* ------------------------------------------------------------------------
Ascending(s, mode) ==
  \A i, j \in 1..Len(s) : i < j => Compare(mode, s[i], s[j]) <= 0

LeafListsAscending(f) ==
  \A ws \in Range(getChildrenRoot(f)) :
    \A s \in Range(getChildrenWorkspace(ws.key, f)) :
      LET ch == getChildrenSection(ws.key, s.section, f)
          leaves == SelectSeq(ch, IsLeafNode)
      IN /\ Ascending([i \in 1..Len(leaves) |-> leaves[i].item], "name")
         /\ \A n \in Range(ch) :
              IsCategoryNode(n) =>
                LET below == LeavesUnder(n, f)
                IN Ascending([i \in 1..Len(below) |-> below[i].item], "name")

\* C13: after a refresh every list of the derived state is ascending in its
\* sort key (top-level items and notebooks by name, category names, sources
\* by label, the items of every (category, source) list by name), and so is
\* every list of leaves that getChildren returns, with and without a filter.
C13_ListsAreAscending ==
  lastLoad.done =>
    /\ \A kind \in {"launch", "task"} :
         /\ \A b \in Buckets(kind) : Ascending(Contents(kind, b), "name")
         /\ \A wk \in DOMAIN CategoriesOf(kind) :
              Ascending(CategoriesOf(kind)[wk], "string")
         /\ \A wk \in DOMAIN SourcesByCategoryOf(kind) :
              \A c \in DOMAIN SourcesByCategoryOf(kind)[wk] :
                Ascending(SourcesByCategoryOf(kind)[wk][c], "label")
    /\ \A wk \in DOMAIN notebooksByWorkspace :
         Ascending(notebooksByWorkspace[wk], "name")
    /\ \A wk \in DOMAIN launchSourcesByWorkspace :
         Ascending(launchSourcesByWorkspace[wk], "label")
    /\ \A f \in FilterLowers \cup {getFilterLower} : LeafListsAscending(f)

\* C13 witness: a refresh stored two category names, a (category, source)
\* list and a notebook list of two items each, whose order differs from the
\* order of the documents, and a filter is set that keeps a task.
C13_Witness ==
  /\ lastLoad.done
  /\ \E wk \in DOMAIN launchCategoriesByWorkspace : Len(launchCategoriesByWorkspace[wk]) >= 2
  /\ \E b \in Buckets("launch") :
       /\ ~b.top
       /\ Len(Contents("launch", b)) >= 2
       /\ files.launchJson["w1"].entries[1].name = Contents("launch", b)[2].name
  /\ \E wk \in DOMAIN notebooksByWorkspace : Len(notebooksByWorkspace[wk]) >= 2
  /\ getFilterLower # <<>>
  /\ \E b \in Buckets("task") : Len(Filtered(Contents("task", b), getFilterLower)) >= 1

\* ------------------------------------------------------------------------
\* Idempotence
\* ------------------------------------------------------------------------
DerivedState ==
  <<workspaces, notebooksByWorkspace, launchSourcesByWorkspace,
    launchesByWorkspaceAndSource, topLevelLaunchesByWorkspace,
    launchCategoriesByWorkspace, launchesByWorkspaceCategorySource,
    launchSourcesByWorkspaceCategory, topLevelTasksByWorkspace,
    taskCategoriesByWorkspace, tasksByWorkspaceCategorySource,
    taskSourcesByWorkspaceCategory>>

LoadStarted == Len(pending') = Len(pending) + 1

RefreshCompleted == Len(pending') = Len(pending) - 1

\* The load whose result the derived state holds was made in the
\* environment as it is now
LastLoadIsCurrent == lastLoad.done /\ lastLoad.result = loadLaunchesAndTasks(CurrentEnv)

\* C14: with documents, configuration and workspace folders unchanged, a
\* load returns what the load before it returned, and a refresh that
\* completes with that load leaves the derived state as the refresh before
\* it left it.
C14_RefreshIsIdempotent ==
  [][/\ (LoadStarted /\ envVars' = envVars /\ LastLoadIsCurrent)
         => pending'[Len(pending')] = lastLoad.result
     /\ (RefreshCompleted /\ LastLoadIsCurrent /\ lastLoad'.result = lastLoad.result)
         => DerivedState' = DerivedState]_vars

\* C14 witness: a second refresh has completed over an unchanged environment
\* that holds launches, tasks and notebooks, and another load of the same
\* environment is awaited.
C14_Witness ==
  /\ LastLoadIsCurrent
  /\ edits = 0
  /\ Len(pending) = 1
  /\ pending[1] = lastLoad.result
  /\ Len(workspaces) = 2
  /\ topLevelTasksByWorkspace # EmptyMap
  /\ launchesByWorkspaceCategorySource # EmptyMap
  /\ notebooksByWorkspace # EmptyMap

\* ------------------------------------------------------------------------
\* Loader properties: nameless entries
\* ------------------------------------------------------------------------
NamedEntries(entries) == SelectSeq(entries, LAMBDA e : trim(e.name) # <<>>)

ItemsFrom(items, source) == SelectSeq(items, LAMBDA x : x.source = source)

ItemNames(items) == [i \in 1..Len(items) |-> items[i].name]

EntryNames(entries) == [i \in 1..Len(entries) |-> trim(entries[i].name)]

\* The names a document contributes are the trimmed names of its named
\* entries, each as often as it is listed
SameNames(items, entries) ==
  /\ Len(items) = Len(NamedEntries(entries))
  /\ \A n \in Range(EntryNames(NamedEntries(entries))) :
       Count(n, ItemNames(items)) = Count(n, EntryNames(NamedEntries(entries)))

UserSourcesRead == files.userSettings

NoDuplicates(s) == \A i, j \in 1..Len(s) : s[i] = s[j] => i = j

\* C16: after a load the sources are distinct, every source of launchSources
\* and taskSources is the source of at least one returned item, and every
\* returned item's source is in the sources list of its kind; a document
\* that gives no item gives no source.
C16_SourcesHaveItems ==
  loadOut.called =>
    /\ NoDuplicates(loadOut.result.launchSources)
    /\ NoDuplicates(loadOut.result.taskSources)
    /\ \A s \in Range(loadOut.result.launchSources) :
         ItemsFrom(LoadedLaunches, s) # <<>>
    /\ \A s \in Range(loadOut.result.taskSources) :
         ItemsFrom(LoadedTasks, s) # <<>>
    /\ \A x \in Range(LoadedLaunches) : x.source \in Range(loadOut.result.launchSources)
    /\ \A x \in Range(LoadedTasks) : x.source \in Range(loadOut.result.taskSources)

\* ------------------------------------------------------------------------
\* Loader properties: documents that fail
\* ------------------------------------------------------------------------
DocKinds == {"launchJson", "tasksJson", "notebooksJson"}

Failing(kind) == files[kind]["w1"].fault # "none"

FilesWithout(kind) == [files EXCEPT ![kind]["w1"] = Missing]

PathFails(q) ==
  \/ ~resolveNotebookPath(trim(q), NoFolder).ok
  \/ FsStat(resolveNotebookPath(trim(q), NoFolder).uri).type = "missing"

ConfigWithoutFailingPaths ==
  [config EXCEPT !.userNotebookPaths = SelectSeq(@, LAMBDA q : ~PathFails(q))]

\* C17: when a document cannot be read or parsed, or a notebook path does
\* not resolve or cannot be accessed, the load completes and returns exactly
\* the items and sources it returns when that document or path is absent.
C17_FailingDocumentIsAbsent ==
  loadOut.called =>
    /\ ~loadOut.result.raised
    /\ \A kind \in DocKinds :
         Failing(kind) =>
           loadOut.result =
             loadLaunchesAndTasks(EnvOf(workspaceFolders, FilesWithout(kind), config))
    /\ loadOut.result =
         loadLaunchesAndTasks(EnvOf(workspaceFolders, files, ConfigWithoutFailingPaths))

\* ------------------------------------------------------------------------
\* Loader properties: item ids
\* ------------------------------------------------------------------------
DistinctIds(items) == \A i, j \in 1..Len(items) : items[i].id = items[j].id => i = j

\* C18: in the result of one load no two launch items share an id and no
\* two task items share an id, whatever the documents list.
C18_ItemIdsAreUnique ==
  loadOut.called => DistinctIds(LoadedLaunches) /\ DistinctIds(LoadedTasks)

\* ------------------------------------------------------------------------
\* Loader properties: user launches and user tasks
\* ------------------------------------------------------------------------
AppearsAsUserItem(e, items) ==
  \E x \in Range(items) : x.name = trim(e.name) /\ x.workspaceFolder = NoFolder

\* C19: after a load, every entry of userLaunches with a non-empty trimmed
\* name is a launch item without workspace folder and every entry of
\* userTasks with a non-empty trimmed label is a task item without workspace
\* folder, in every environment.
C19_UserEntriesAreLoaded ==
  (loadOut.called /\ ~loadOut.result.raised) =>
    /\ \A e \in Range(NamedEntries(config.userLaunches)) :
         AppearsAsUserItem(e, LoadedLaunches)
    /\ \A e \in Range(NamedEntries(config.userTasks)) :
         AppearsAsUserItem(e, LoadedTasks)

\* ------------------------------------------------------------------------
\* Refresh on configuration changes
\* ------------------------------------------------------------------------
\* A refresh that read the current environment is in flight or has completed
\* last
RefreshReadCurrentEnv ==
  \/ \E i \in 1..Len(pending) : pending[i] = loadLaunchesAndTasks(CurrentEnv)
  \/ lastLoad.done /\ lastLoad.result = loadLaunchesAndTasks(CurrentEnv)

\* C20: whenever the configuration that feeds the tree has changed, a
\* refresh that reads the changed configuration is eventually started
\* without any user action.
C20_ConfigChangeStartsRefresh == (~RefreshReadCurrentEnv) ~> RefreshReadCurrentEnv

\* ------------------------------------------------------------------------
\* Rerun and re-debug
\* ------------------------------------------------------------------------
LaunchExecs == SelectSeq(execs, LAMBDA e : e.kind \in LaunchKinds)

\* The launch run or debugged last, NoLaunch before the first
MostRecentLaunch ==
  IF LaunchExecs = <<>> THEN NoLaunch ELSE LaunchExecs[Len(LaunchExecs)].item

Executing(e) == e.pc \in {"starting", "fetching", "executing"} \/ e.live

RunningSetOf(e) == IF e.kind \in LaunchKinds THEN runningLaunches ELSE runningTasks

\* C23: while an execution of a launch or task has started and not ended,
\* the id of its item is in the running set, whatever other executions do.
C23_RunningWhileExecuting ==
  \A i \in 1..Len(execs) :
    Executing(execs[i]) => execs[i].item.id \in RunningSetOf(execs[i])

ExecIds ==
  {x.id : x \in ExecLaunchItems \cup ExecTaskItems \cup ExecUserTaskItems}

C22_ExecutesOnlyOnDoubleClick ==
  [][Len(execs') > Len(execs) =>
       /\ prevSelection.set
       /\ prevSelection.nodeId = execs'[Len(execs')].item.id
       /\ now - prevSelection.timestamp < DOUBLE_CLICK_DELAY
       /\ Len(execs') = Len(execs) + 1
       /\ execs'[Len(execs')].kind # "debug"
       /\ lastSelection' = NoSelection
       /\ clickTimeout' = FALSE]_vars

LaunchesOfFile == {i \in 1..Len(config.userLaunches) : config.userLaunches[i].program = FsPath}

\* C24: whatever the sequence of invocations of runFileAsLaunch and
\* debugFileAsLaunch on a file, sequential or overlapping, at most one
\* configuration of the file is appended to userLaunches, no entry of
\* userLaunches is lost, and every invocation ends by executing a launch.
C24_FileLaunchIsCreatedOnce ==
  /\ [](Cardinality(LaunchesOfFile) <= 1)
  /\ [](\A i \in 1..Len(fileCalls) : fileCalls[i].pc # "failed")
  /\ [][\A e \in Range(config.userLaunches) :
          Count(e, config'.userLaunches) >= Count(e, config.userLaunches)]_vars

\* ------------------------------------------------------------------------
\* Refreshes and queries interleaved
\* ------------------------------------------------------------------------
StoredOf(kind) == UNION {Range(Contents(kind, b)) : b \in Buckets(kind)}

StoredIn(m) == UNION {Range(m[wk]) : wk \in DOMAIN m}

StoredCategories(kind) ==
  UNION {{<<wk, c>> : c \in Range(CategoriesOf(kind)[wk])} :
           wk \in DOMAIN CategoriesOf(kind)}

CategoriesOfItems(items) ==
  {<<ExpectedKey(x), trim(x.category.val)>> : x \in {y \in Range(items) : ~IsBlank(y.category)}}

HasUserNode == \E i \in 1..Len(workspaces) : workspaces[i].key = USER_WORKSPACE_KEY

HasUserSource(L) ==
  \/ \E s \in Range(L.launchSources) \cup Range(L.taskSources) : s.workspaceFolder = NoFolder
  \/ \E n \in Range(L.notebooks) : n.isLocal

\* The workspace list and every derived map hold what one load returned
SnapshotOf(L) ==
  /\ StoredOf("launch") = Range(L.launches)
  /\ StoredOf("task") = Range(L.tasks)
  /\ StoredIn(notebooksByWorkspace) = Range(L.notebooks)
  /\ StoredIn(launchSourcesByWorkspace) = Range(L.launchSources)
  /\ StoredCategories("launch") = CategoriesOfItems(L.launches)
  /\ StoredCategories("task") = CategoriesOfItems(L.tasks)
  /\ DOMAIN launchSourcesByWorkspaceCategory = DOMAIN launchesByWorkspaceCategorySource
  /\ DOMAIN taskSourcesByWorkspaceCategory = DOMAIN tasksByWorkspaceCategorySource
  /\ HasUserNode <=> HasUserSource(L)

\* C25: at every moment, also while loads are awaited, the workspace list and
\* the derived maps that a query reads are together the state left by one
\* refresh (or the state of construction); only the continuation of a
\* refresh changes them, and a step that starts a load changes none of them.
C25_QueriesSeeCompleteState ==
  /\ [](SnapshotOf(lastLoad.result))
  /\ [][~RefreshCompleted => DerivedState' = DerivedState]_vars

\* C25 witness: a refresh has completed with launches, tasks and notebooks,
\* a filter is set, the root query shows a workspace, and a load with another
\* result is awaited.
C25_Witness ==
  /\ lastLoad.done
  /\ Len(pending) >= 1
  /\ pending[1] # lastLoad.result
  /\ lastLoad.result.tasks # <<>>
  /\ lastLoad.result.launches # <<>>
  /\ lastLoad.result.notebooks # <<>>
  /\ getFilterLower # <<>>
  /\ getChildrenRoot(getFilterLower) # <<>>

\* What the continuation of refresh() stores for a load result
AggregationOf(L) ==
  <<buildWorkspaces(workspaceFolders, L),
    PushInto(EmptyMap, buildNotebooksByWorkspace(L.notebooks), "name"),
    PushInto(EmptyMap, buildSourcesByWorkspace(L.launchSources), "label"),
    EmptyMap,
    PushInto(EmptyMap, buildTopLevelByWorkspace(L.launches), "name"),
    SetInto(EmptyMap, buildCategoriesByWorkspace(L.launches)),
    SetInto(EmptyMap, buildByWorkspaceCategorySource(L.launches)),
    SetInto(EmptyMap, buildSourcesByWorkspaceCategory(L.launches)),
    PushInto(EmptyMap, buildTopLevelByWorkspace(L.tasks), "name"),
    SetInto(EmptyMap, buildCategoriesByWorkspace(L.tasks)),
    SetInto(EmptyMap, buildByWorkspaceCategorySource(L.tasks)),
    SetInto(EmptyMap, buildSourcesByWorkspaceCategory(L.tasks))>>

Without(loads, i) ==
  [j \in 1..(Len(loads) - 1) |-> IF j < i THEN loads[j] ELSE loads[j + 1]]

\* C26: a refresh that starts leaves the loads already awaited in flight, a
\* refresh that completes takes the result of its own load and leaves the
\* others in flight, whichever of them it is, and when no load is awaited
\* any more the derived state is the aggregation of the result of the
\* refresh that completed last.
C26_LastCompletionWins ==
  /\ []((pending = <<>> /\ lastLoad.done) => DerivedState = AggregationOf(lastLoad.result))
  /\ [][/\ LoadStarted => SubSeq(pending', 1, Len(pending)) = pending
        /\ RefreshCompleted =>
             \E i \in 1..Len(pending) :
               /\ pending' = Without(pending, i)
               /\ lastLoad' = [done |-> TRUE, result |-> pending[i]]]_vars

\* C26 witness: two loads with different results were awaited together, the
\* one started first completed last, and the derived state holds its result.
C26_Witness ==
  /\ pending = <<>>
  /\ lastLoad.done
  /\ config.userNotebookPaths # <<>>
  /\ lastLoad.result # loadLaunchesAndTasks(CurrentEnv)
  /\ DerivedState = AggregationOf(lastLoad.result)
  /\ DerivedState # AggregationOf(loadLaunchesAndTasks(CurrentEnv))

\* ------------------------------------------------------------------------
\* Run state, root queries and workspace folders
\* ------------------------------------------------------------------------
\* C28: setLaunchRunning and setTaskRunning make the id a member of their
\* own set exactly when running is true, leave the other members, the other
\* set, the workspace list and the derived maps as they are; starting a
\* load, completing a refresh and changing the filter leave both sets as
\* they are.
C28_RunStateAndAggregationAreIndependent ==
  [][/\ \A id \in LaunchIds, on \in BOOLEAN :
          SetLaunchRunning(id, on) =>
            /\ id \in runningLaunches' <=> on
            /\ runningLaunches' \ {id} = runningLaunches \ {id}
            /\ runningTasks' = runningTasks
            /\ DerivedState' = DerivedState
     /\ \A id \in TaskIds, on \in BOOLEAN :
          SetTaskRunning(id, on) =>
            /\ id \in runningTasks' <=> on
            /\ runningTasks' \ {id} = runningTasks \ {id}
            /\ runningLaunches' = runningLaunches
            /\ DerivedState' = DerivedState
     /\ (LoadStarted \/ RefreshCompleted \/ nameFilter' # nameFilter)
          => runVars' = runVars]_vars

\* C28 witness: two launches and a task are marked running, a refresh has
\* completed with launches and tasks, a filter is set and a load is awaited.
C28_Witness ==
  /\ Cardinality(runningLaunches) = 2
  /\ runningTasks # {}
  /\ lastLoad.done
  /\ lastLoad.result.launches # <<>>
  /\ lastLoad.result.tasks # <<>>
  /\ nameFilter # <<>>
  /\ pending # <<>>

\* C29: once the startup refresh has completed, no root query starts a
\* load: with the host querying the root and the run state changing, the
\* number of loads awaited never grows again.
C29_RootQueryStartsNoLoad ==
  [][lastLoad.done => Len(pending') <= Len(pending)]_vars

WorkspaceKeys == {workspaces[i].key : i \in 1..Len(workspaces)}

\* C30: after every completed refresh, every workspace key under which a
\* launch, task or notebook is aggregated is the key of a node of the
\* workspace list.
C30_AggregatedItemsHaveWorkspaceNode ==
  lastLoad.done =>
    \A wk \in KnownKeys : AggregatedUnder(wk) # {} => wk \in WorkspaceKeys

====
